---------------------------- MODULE Spec2Model ----------------------------
(***************************************************************************)
(* A model of lyricflow's transcription post-processing pipeline:          *)
(*   - normalizeTimestamp / timestampToSeconds (services/geminiService.ts  *)
(*     and its sibling versions),                                          *)
(*   - tryRepairJson (the JSON repair ladder),                             *)
(*   - the segment post-processing at the end of transcribeAudio,          *)
(*   - the subtitle writers of utils/timeUtils.ts,                         *)
(*   - the video export of components/ResultsView.tsx.                     *)
(*                                                                         *)
(* Strings are sequences of one-character strings.  Seconds are exact      *)
(* decimal numbers held as an integer number of milliseconds; IEEE-754     *)
(* rounding noise of the JavaScript doubles is not modelled.               *)
(***************************************************************************)
EXTENDS Integers, Sequences, FiniteSets, TLC

VARIABLES
    pc,        \* position of the pipeline that is being exercised
    variant,   \* which version of the service file is running
    ts,        \* normalizeTimestamp's input string
    norm,      \* normalizeTimestamp(ts)
    norm2,     \* normalizeTimestamp(norm)
    secs,      \* timestampToSeconds(norm), in milliseconds
    form,      \* the fields ts was written from (kind "free": none)
    raw,       \* the raw segment records handed to the post-processing
    out,       \* what the post-processing returned, or that it threw
    doc,       \* the document the response text was written from
    text,      \* response.text, as a sequence of JSON tokens
    repaired,  \* what tryRepairJson returned, or the error it threw
    verdict,   \* what transcribeAudio did with the repaired value
    segments,  \* the segments handed to the subtitle writers
    metadata,  \* the metadata handed to generateLRC and generateTTML
    audioDuration, \* generateLRC's third argument, in ticks of 0.1 ms
    srt,       \* generateSRT(segments)
    lrc,       \* generateLRC(segments, metadata, audioDuration)
    ttml,      \* generateTTML(segments, metadata)
    readback,  \* the stamps of srt, normalized and parsed again
    isExporting,       \* ResultsView's state isExporting
    isAbortedRef,      \* isAbortedRef.current
    mediaRecorderRef,  \* the export whose recorder mediaRecorderRef.current is
    animationFrameRef, \* the export whose drawFrame animationFrameRef.current is
    exports,           \* the calls of exportVideo so far
    downloaded,        \* the exports whose onstop clicked the download link
    appState,          \* App's state appState
    audioSourceType,   \* App's state audioSourceType
    audioFile,         \* App's state audioFile
    transcription,     \* App's state transcription: whose result it holds
    errorMsg,          \* App's state errorMsg
    isRecording,       \* App's state isRecording
    recorderRef,       \* the recording App's mediaRecorderRef.current is
    transcriptionRequestIdRef, \* transcriptionRequestIdRef.current
    requests,          \* the calls of handleTranscribe that went past its guard
    recordings         \* the calls of startRecording so far

vars == <<pc, variant, ts, norm, norm2, secs, form, raw, out,
          doc, text, repaired, verdict,
          segments, metadata, audioDuration, srt, lrc, ttml, readback,
          isExporting, isAbortedRef, mediaRecorderRef, animationFrameRef,
          exports, downloaded,
          appState, audioSourceType, audioFile, transcription, errorMsg,
          isRecording, recorderRef, transcriptionRequestIdRef, requests, recordings>>

tsVars == <<ts, norm, norm2, secs, form>>

ppVars == <<raw, out>>

jsVars == <<doc, text, repaired, verdict>>

emVars == <<segments, metadata, audioDuration, srt, lrc, ttml, readback>>

exVars == <<isExporting, isAbortedRef, mediaRecorderRef, animationFrameRef,
            exports, downloaded>>

apVars == <<appState, audioSourceType, audioFile, transcription, errorMsg,
            isRecording, recorderRef, transcriptionRequestIdRef, requests, recordings>>

(***************************************************************************)
(* Characters and JavaScript string helpers                                *)
(***************************************************************************)
Digits == {"0", "1", "2", "3", "4", "5", "6", "7", "8", "9"}

DigitSeq == <<"0", "1", "2", "3", "4", "5", "6", "7", "8", "9">>

DigitVal(c) == CHOOSE n \in 0..9 : DigitSeq[n + 1] = c

DigitChar(n) == DigitSeq[n + 1]

WhiteSpace == {" "}

\* String.prototype.trim
RECURSIVE TrimStart(_)
TrimStart(s) ==
    IF s # <<>> /\ Head(s) \in WhiteSpace THEN TrimStart(Tail(s)) ELSE s

RECURSIVE TrimEnd(_)
TrimEnd(s) ==
    IF s # <<>> /\ s[Len(s)] \in WhiteSpace
    THEN TrimEnd(SubSeq(s, 1, Len(s) - 1))
    ELSE s

Trim(s) == TrimEnd(TrimStart(s))

\* s.replace(/[^\d:.]/g, '')
KeepTimeChars(s) == SelectSeq(s, LAMBDA c : c \in Digits \cup {":", "."})

\* s.replace(',', '.')  -- a string pattern replaces the first match only
RECURSIVE ReplaceFirstComma(_)
ReplaceFirstComma(s) ==
    IF s = <<>> THEN <<>>
    ELSE IF Head(s) = "," THEN <<".">> \o Tail(s)
    ELSE <<Head(s)>> \o ReplaceFirstComma(Tail(s))

\* s.replace(/,/g, '.')
ReplaceAllCommas(s) == [i \in 1..Len(s) |-> IF s[i] = "," THEN "." ELSE s[i]]

\* s.split(sep): always at least one part
RECURSIVE SplitAcc(_, _, _)
SplitAcc(s, sep, cur) ==
    IF s = <<>> THEN <<cur>>
    ELSE IF Head(s) = sep THEN <<cur>> \o SplitAcc(Tail(s), sep, <<>>)
    ELSE SplitAcc(Tail(s), sep, Append(cur, Head(s)))

Split(s, sep) == SplitAcc(s, sep, <<>>)

\* the longest prefix of s made of digits
RECURSIVE DigitPrefix(_)
DigitPrefix(s) ==
    IF s # <<>> /\ Head(s) \in Digits
    THEN <<Head(s)>> \o DigitPrefix(Tail(s))
    ELSE <<>>

\* the number a digit string denotes
RECURSIVE DigitsToNat(_)
DigitsToNat(d) ==
    IF d = <<>> THEN 0
    ELSE DigitsToNat(SubSeq(d, 1, Len(d) - 1)) * 10 + DigitVal(d[Len(d)])

\* a version whose default for an unreadable field is 1
ParseIntOr1(s) == IF DigitPrefix(s) = <<>> THEN 1 ELSE DigitsToNat(DigitPrefix(s))

\* parseInt(s, 10) || 0 : NaN (no leading digit) and 0 both give 0
ParseIntOr0(s) == DigitsToNat(DigitPrefix(s))

\* String(n) for a natural number
RECURSIVE NatToStr(_)
NatToStr(n) ==
    IF n < 10 THEN <<DigitChar(n)>>
    ELSE NatToStr(n \div 10) \o <<DigitChar(n % 10)>>

\* s.padStart(w, '0')
RECURSIVE PadStart(_, _)
PadStart(s, w) == IF Len(s) >= w THEN s ELSE PadStart(<<"0">> \o s, w)

\* s.padEnd(w, '0')
RECURSIVE PadEnd(_, _)
PadEnd(s, w) == IF Len(s) >= w THEN s ELSE PadEnd(Append(s, "0"), w)

\* s.substring(0, n)
Take(s, n) == SubSeq(s, 1, IF Len(s) < n THEN Len(s) ELSE n)

(***************************************************************************)
(* parseFloat on a string of digits and dots.  The result is the integer   *)
(* part and the digits of the fraction; nan when no digit leads and no     *)
(* digit follows a leading dot.                                            *)
(***************************************************************************)
ParseFloat(s) ==
    LET ip   == DigitPrefix(s)
        rest == SubSeq(s, Len(ip) + 1, Len(s))
        fp   == IF rest # <<>> /\ Head(rest) = "."
                THEN DigitPrefix(Tail(rest)) ELSE <<>>
    IN  [nan |-> (ip = <<>> /\ fp = <<>>), int |-> DigitsToNat(ip), frac |-> fp]

\* Math.round(fraction * 1000): the first three digits, plus one when the
\* fourth digit is 5 or more (Math.round rounds a tie upwards)
RoundMillis(fp) ==
    DigitsToNat(PadEnd(Take(fp, 3), 3))
      + (IF Len(fp) >= 4 /\ DigitVal(fp[4]) >= 5 THEN 1 ELSE 0)

\* the value of parseFloat(s) in milliseconds, for a fraction that is a
\* whole number of milliseconds (three digits, then zeros only)
FloatMillis(s) ==
    LET f == ParseFloat(s)
    IN  f.int * 1000 + DigitsToNat(PadEnd(Take(f.frac, 3), 3))


(***************************************************************************)
(* Versions of the service file.  The repository holds several versions    *)
(* of services/geminiService.ts side by side:                              *)
(*   gs_a  src/services/geminiService.ts, lines 1-304                      *)
(*   gs_b  src/services/geminiService.ts, lines 307-645                    *)
(*   p1    src/unnamed/part_001                                            *)
(*   p2_a  src/unnamed/part_002, lines 1-136                               *)
(*   p2_b  src/unnamed/part_002, lines 139-316                             *)
(*   p3    src/unnamed/part_003                                            *)
(***************************************************************************)
NormVariants == {"gs_a", "gs_b", "p1", "p3"}

Range(s) == {s[i] : i \in 1..Len(s)}

\* `${pad2(h)}:${pad2(m)}:${pad2(s)}.${pad3(ms)}`
Stamp(h, m, s, ms) ==
    PadStart(NatToStr(h), 2) \o <<":">> \o PadStart(NatToStr(m), 2) \o <<":">>
      \o PadStart(NatToStr(s), 2) \o <<".">> \o PadStart(NatToStr(ms), 3)

ZeroStamp == <<"0", "0", ":", "0", "0", ":", "0", "0", ".", "0", "0", "0">>

\* the comma handling and the stripping of noise characters
CleanTimestamp(v, s) ==
    LET t == Trim(s)
        c == CASE v = "gs_b" -> ReplaceFirstComma(t)
               [] v = "p1"   -> ReplaceAllCommas(t)
               [] OTHER      -> t
    IN  KeepTimeChars(c)

\* a version that clamps the seconds field to 59
SecondsAndMillisClamped(part) ==
    LET sp == Split(part, ".")
        s0 == ParseIntOr0(sp[1])
    IN  [s  |-> IF s0 > 59 THEN 59 ELSE s0,
         ms |-> IF Len(sp) >= 2 /\ sp[2] # <<>>
                THEN DigitsToNat(PadEnd(Take(sp[2], 3), 3))
                ELSE 0]

\* secParts = part.split('.'); s = parseInt(secParts[0]) || 0;
\* ms = secParts[1] ? parseInt(secParts[1].substring(0,3).padEnd(3,'0')) : 0
SecondsAndMillis(part) ==
    LET sp == Split(part, ".")
    IN  [s  |-> ParseIntOr0(sp[1]),
         ms |-> IF Len(sp) >= 2 /\ sp[2] # <<>>
                THEN DigitsToNat(PadEnd(Take(sp[2], 3), 3))
                ELSE 0]

\* a version that loses the hours of the raw seconds
RawSecondsStampNoHours(f) ==
    Stamp(0, (f.int % 3600) \div 60, f.int % 60, RoundMillis(f.frac))

\* the raw-seconds branch: h, m, s from the whole seconds, ms by Math.round
RawSecondsStamp(f) ==
    Stamp(f.int \div 3600, (f.int % 3600) \div 60, f.int % 60, RoundMillis(f.frac))

normalizeTimestamp(v, s) ==
    IF s = <<>> THEN ZeroStamp
    ELSE
      LET clean == CleanTimestamp(v, s)
          f     == ParseFloat(clean)
          parts == Split(clean, ":")
      IN  IF ":" \notin Range(clean) /\ clean # <<>> /\ ~f.nan
          THEN RawSecondsStamp(f)
          ELSE CASE Len(parts) = 3 ->
                      LET sm == SecondsAndMillis(parts[3])
                      IN  Stamp(ParseIntOr0(parts[1]), ParseIntOr0(parts[2]), sm.s, sm.ms)
                 [] Len(parts) = 2 ->
                      LET sm == SecondsAndMillis(parts[2])
                      IN  Stamp(0, ParseIntOr0(parts[1]), sm.s, sm.ms)
                 [] Len(parts) = 1 /\ v # "p3" ->
                      LET sm == SecondsAndMillis(parts[1])
                      IN  Stamp(0, 0, sm.s, sm.ms)
                 [] OTHER -> ZeroStamp

\* the value JavaScript's NaN is modelled by
NaN == -1

\* timestampToSeconds, in milliseconds
timestampToSeconds(t) ==
    LET parts == Split(t, ":")
    IN  IF Len(parts) = 3
        THEN IF \E i \in 1..3 : ParseFloat(parts[i]).nan
             THEN NaN
             ELSE FloatMillis(parts[1]) * 3600 + FloatMillis(parts[2]) * 60
                    + FloatMillis(parts[3])
        ELSE 0

(***************************************************************************)
(* Inputs of the timestamp pipeline                                        *)
(***************************************************************************)
MaxLen == 4

\* two digits, the separators, white space and a noise character; the digits
\* are small enough for every number met to stay below 2^31
Alphabet == {"0", "5", ":", ".", ",", " ", "x"}

\* two longer strings: words only, and four fields
NoiseStrings ==
    {<<"n", "o", "t", " ", "a", " ", "t", "i", "m", "e">>,
     <<"0", "5", ":", "0", "5", ":", "0", "5", ":", "0", "5">>}

FreeStrings == UNION {[1..n -> Alphabet] : n \in 0..MaxLen} \cup NoiseStrings

D2(n) == PadStart(NatToStr(n), 2)

HourStrs == {NatToStr(n) : n \in {0, 1, 100}} \cup {D2(n) : n \in {0, 1}}

MinuteStrs == {D2(n) : n \in {0, 2, 75}}

SecondStrs == {D2(n) : n \in {0, 3, 75}}

BareStrs == {NatToStr(n) : n \in {0, 3, 65, 75}}

LongBareStrs == {NatToStr(n) : n \in {3600, 360000}}

FracStrs == {<<"5">>, <<"4", "5", "0">>, <<"1", "0", "6">>,
             <<"9", "9", "9", "6">>, <<"0", "0", "0", "4">>}

NoForm == [kind |-> "free", h |-> <<>>, m |-> <<>>, s |-> <<>>,
           frac |-> <<>>, sep |-> "."]

Forms ==
    {NoForm}
    \cup [kind : {"hms"}, h : HourStrs, m : MinuteStrs, s : SecondStrs,
          frac : FracStrs \cup {<<>>}, sep : {".", ","}]
    \cup [kind : {"ms"}, h : {<<>>}, m : MinuteStrs \cup {<<"2">>}, s : SecondStrs,
          frac : FracStrs \cup {<<>>}, sep : {".", ","}]
    \cup [kind : {"s"}, h : {<<>>}, m : {<<>>}, s : BareStrs,
          frac : FracStrs \cup {<<>>}, sep : {".", ","}]
    \cup [kind : {"s"}, h : {<<>>}, m : {<<>>}, s : LongBareStrs,
          frac : FracStrs \cup {<<>>}, sep : {"."}]

\* the text of a structured input
Render(f) ==
    (IF f.kind = "hms" THEN f.h \o <<":">> ELSE <<>>)
      \o (IF f.kind \in {"hms", "ms"} THEN f.m \o <<":">> ELSE <<>>)
      \o f.s
      \o (IF f.frac # <<>> THEN <<f.sep>> \o f.frac ELSE <<>>)

(***************************************************************************)
(* The timestamp pipeline: normalize, parse, normalize again               *)
(***************************************************************************)
ExIdle ==
    /\ isExporting = FALSE /\ isAbortedRef = FALSE /\ mediaRecorderRef = 0
    /\ animationFrameRef = 0 /\ exports = <<>> /\ downloaded = {}

\* no audio: audioFile is null
NoFile == [kind |-> "null", id |-> 0]

\* the App as it is mounted: the initial values of its useState and useRef
AppIdle ==
    /\ appState = "IDLE" /\ audioSourceType = "upload" /\ audioFile = NoFile
    /\ transcription = 0 /\ errorMsg = "null" /\ isRecording = FALSE
    /\ recorderRef = 0 /\ transcriptionRequestIdRef = 0
    /\ requests = <<>> /\ recordings = <<>>

NoOut == [threw |-> FALSE, segs |-> <<>>]

PpIdle == raw = <<>> /\ out = NoOut

JsIdle == doc = <<>> /\ text = <<>> /\ repaired = <<>> /\ verdict = "none"

Meta(title, artist) == [title |-> title, artist |-> artist, album |-> <<>>, by |-> <<>>]

NoMeta == Meta(<<>>, <<>>)

NoReadBack == [by |-> "none", times |-> <<>>]

EmIdle ==
    /\ segments = <<>> /\ metadata = NoMeta /\ audioDuration = 0
    /\ srt = <<>> /\ lrc = <<>> /\ ttml = <<>> /\ readback = NoReadBack

TsInit ==
    /\ pc = "ts_start"
    /\ PpIdle
    /\ JsIdle
    /\ EmIdle
    /\ ExIdle
    /\ AppIdle
    /\ variant \in NormVariants
    /\ form \in Forms
    /\ (form.frac = <<>> => form.sep = ".")
    /\ ts \in (IF form.kind = "free" THEN FreeStrings ELSE {Render(form)})
    /\ norm = <<>>
    /\ norm2 = <<>>
    /\ secs = 0

Normalize ==
    /\ pc = "ts_start"
    /\ norm' = normalizeTimestamp(variant, ts)
    /\ pc' = "ts_norm"
    /\ UNCHANGED <<variant, form, ts, norm2, secs, ppVars, jsVars, emVars, exVars, apVars>>

Parse ==
    /\ pc = "ts_norm"
    /\ secs' = timestampToSeconds(norm)
    /\ pc' = "ts_parsed"
    /\ UNCHANGED <<variant, form, ts, norm, norm2, ppVars, jsVars, emVars, exVars, apVars>>

Renormalize ==
    /\ pc = "ts_parsed"
    /\ norm2' = normalizeTimestamp(variant, norm)
    /\ pc' = "ts_done"
    /\ UNCHANGED <<variant, form, ts, norm, secs, ppVars, jsVars, emVars, exVars, apVars>>

TsNext == Normalize \/ Parse \/ Renormalize

SpecTs == TsInit /\ [][TsNext]_vars


(***************************************************************************)
(* Raw records: what JSON.parse hands to the post-processing.  A field     *)
(* value is undefined (a missing key), a string or a number (seconds, held *)
(* in milliseconds).                                                       *)
(***************************************************************************)
Undef == [kind |-> "undef", s |-> <<>>, n |-> 0]

Str(s) == [kind |-> "str", s |-> s, n |-> 0]

Num(n) == [kind |-> "num", s |-> <<>>, n |-> n]

\* !value
Falsy(val) ==
    \/ val.kind = "undef"
    \/ val.kind = "str" /\ val.s = <<>>
    \/ val.kind = "num" /\ val.n = 0

\* normalizeTimestamp called with whatever the record holds: a falsy value
\* returns the zero stamp, a string is normalized, and any other value has
\* no trim method (a TypeError)
NormalizeField(v, val) ==
    IF Falsy(val) THEN [threw |-> FALSE, s |-> ZeroStamp]
    ELSE IF val.kind = "str" THEN [threw |-> FALSE, s |-> normalizeTimestamp(v, val.s)]
    ELSE [threw |-> TRUE, s |-> <<>>]

\* timestampToSeconds(str), unless normalizeTimestamp threw
SecondsOf(n) == [threw |-> n.threw, t |-> IF n.threw THEN 0 ELSE timestampToSeconds(n.s)]

\* timestampToSeconds(normalizeTimestamp(value))
FieldSeconds(v, val) == SecondsOf(NormalizeField(v, val))

\* the start and the end of one record
RECURSIVE FieldTimes(_, _)
FieldTimes(v, vals) ==
    IF vals = <<>> THEN <<>>
    ELSE <<FieldSeconds(v, Head(vals))>> \o FieldTimes(v, Tail(vals))

\* parseFloat of any string: leading white space is skipped
ParseFloatMillis(s) ==
    LET t == TrimStart(s)
    IN  IF ParseFloat(t).nan THEN NaN ELSE FloatMillis(t)

\* a sum of products in which NaN is contagious
TimeSum(parts) ==
    IF \E i \in 1..Len(parts) : ParseFloatMillis(parts[i]) = NaN THEN NaN
    ELSE IF Len(parts) = 2
         THEN ParseFloatMillis(parts[1]) * 60 + ParseFloatMillis(parts[2])
         ELSE ParseFloatMillis(parts[1]) * 3600 + ParseFloatMillis(parts[2]) * 60
                + ParseFloatMillis(parts[3])

\* parseTimestamp of part_002: the number itself, 0 for any other non-string
\* and for the empty string; MM:SS and HH:MM:SS by parseFloat of the parts;
\* otherwise parseFloat of the whole, NaN replaced by 0.  The later version
\* (p2_b) first replaces the first comma by a dot.
parseTimestamp(v, val) ==
    IF val.kind = "num" THEN val.n
    ELSE IF val.kind # "str" \/ val.s = <<>> THEN 0
    ELSE
      LET t     == IF v = "p2_b" THEN ReplaceFirstComma(Trim(val.s)) ELSE Trim(val.s)
          parts == Split(t, ":")
      IN  IF Len(parts) \in {2, 3} THEN TimeSum(parts)
          ELSE IF ParseFloatMillis(t) = NaN THEN 0 ELSE ParseFloatMillis(t)

(***************************************************************************)
(* Array.prototype.sort((a, b) => a.start - b.start): a stable sort        *)
(***************************************************************************)
RECURSIVE InsertByStart(_, _)
InsertByStart(x, sorted) ==
    IF sorted = <<>> THEN <<x>>
    ELSE IF x.start < Head(sorted).start THEN <<x>> \o sorted
    ELSE <<Head(sorted)>> \o InsertByStart(x, Tail(sorted))

RECURSIVE SortByStart(_)
SortByStart(xs) ==
    IF xs = <<>> THEN <<>>
    ELSE InsertByStart(xs[Len(xs)], SortByStart(SubSeq(xs, 1, Len(xs) - 1)))

(***************************************************************************)
(* The post-processing of transcribeAudio                                  *)
(***************************************************************************)
Variants == {"gs_a", "gs_b", "p1", "p2_a", "p2_b", "p3"}

\* the versions whose segments carry word lists
WordVariants == {"gs_a", "gs_b", "p1"}

\* { start, end, text } of a word, from its two times
WordFrom(t, tx) ==
    [threw |-> t[1].threw \/ t[2].threw,
     word  |-> [start |-> t[1].t, end |-> t[2].t, text |-> tx]]

\* one word of seg.words
MapWord(v, w) == WordFrom(FieldTimes(v, <<w.startTime, w.endTime>>), w.text)

\* seg.words.map(...), before the sort
RECURSIVE MapWordList(_, _)
MapWordList(v, ws) ==
    IF ws = <<>> THEN <<>>
    ELSE <<MapWord(v, Head(ws))>> \o MapWordList(v, Tail(ws))

\* the values a list of map results carries
RECURSIVE Words(_)
Words(ms) == IF ms = <<>> THEN <<>> ELSE <<Head(ms).word>> \o Words(Tail(ms))

RECURSIVE Segs(_)
Segs(ms) == IF ms = <<>> THEN <<>> ELSE <<Head(ms).seg>> \o Segs(Tail(ms))

\* whether a callback of the map threw
AnyThrew(ms) == \E i \in 1..Len(ms) : ms[i].threw

\* a version that forgets to sort the words
UnsortedWords(mapped) == [threw |-> AnyThrew(mapped), words |-> Words(mapped)]

\* the sorted words of a mapped list, or that a callback threw
SortedWords(mapped) == [threw |-> AnyThrew(mapped), words |-> SortByStart(Words(mapped))]

\* seg.words.map(...).sort((a, b) => a.start - b.start)
MapWords(v, ws) == SortedWords(MapWordList(v, ws))

\* segment.words: [] unless seg.words is an array
SegmentWords(v, r) ==
    IF v \in WordVariants /\ r.hasWords
    THEN MapWords(v, r.words)
    ELSE [threw |-> FALSE, words |-> <<>>]

\* a segment object whose end is never before its start
SegmentFromClamped(t, tx, ws) ==
    [threw |-> t[1].threw \/ t[2].threw \/ ws.threw,
     seg   |-> [start |-> t[1].t, end |-> IF t[2].t < t[1].t THEN t[1].t ELSE t[2].t,
                text |-> tx, words |-> ws.words]]

\* the segment object, from its two times and its words
SegmentFrom(t, tx, ws) ==
    [threw |-> t[1].threw \/ t[2].threw \/ ws.threw,
     seg   |-> [start |-> t[1].t, end |-> t[2].t, text |-> tx, words |-> ws.words]]

\* the callback of rawData.segments.map in geminiService.ts and part_001
\* (with words), and in part_003 (without)
MapSegment(v, r) ==
    SegmentFrom(FieldTimes(v, <<r.startTime, r.endTime>>), r.text, SegmentWords(v, r))

\* parseTimestamp(seg.start), parseTimestamp(seg.end)
RECURSIVE ParsedTimes(_, _)
ParsedTimes(v, vals) ==
    IF vals = <<>> THEN <<>>
    ELSE <<parseTimestamp(v, Head(vals))>> \o ParsedTimes(v, Tail(vals))

SegmentFromP2(v, t, tx) ==
    [threw |-> FALSE,
     seg   |-> [start |-> t[1], end |-> t[2],
                text  |-> IF v = "p2_b" THEN Trim(tx) ELSE tx,
                words |-> <<>>]]

\* the callback of rawSegments.map in part_002; the later version trims
\* the text
MapSegmentP2(v, r) == SegmentFromP2(v, ParsedTimes(v, <<r.start, r.end>>), r.text)

NonEmptyText(seg) == seg.text # <<>>

\* what the version does with the mapped list: part_002's first version
\* returns it as it is, its later version drops the empty texts and sorts,
\* every other version sorts
Finish(v, segs) ==
    CASE v = "p2_a" -> segs
      [] v = "p2_b" -> SortByStart(SelectSeq(segs, NonEmptyText))
      [] OTHER      -> SortByStart(segs)

\* the returned list, or the exception of a callback
Returned(v, mapped) ==
    IF AnyThrew(mapped)
    THEN [threw |-> TRUE, segs |-> <<>>]
    ELSE [threw |-> FALSE, segs |-> Finish(v, Segs(mapped))]

\* rawData.segments.map(callback)
RECURSIVE MapSegmentList(_, _)
MapSegmentList(v, rs) ==
    IF rs = <<>> THEN <<>>
    ELSE <<IF v \in {"p2_a", "p2_b"}
           THEN MapSegmentP2(v, Head(rs))
           ELSE MapSegment(v, Head(rs))>> \o MapSegmentList(v, Tail(rs))

PostProcess(v, records) == Returned(v, MapSegmentList(v, records))

(***************************************************************************)
(* Inputs of the post-processing                                           *)
(***************************************************************************)
MaxSegs == 2

MaxWords == 2

\* MM:SS.mmm, the format the prompts of part_002 ask for
ShortStamp(m, s, ms) ==
    D2(m) \o <<":">> \o D2(s) \o <<".">> \o PadStart(NatToStr(ms), 3)

\* a record written with the keys startTime / endTime
LongRecord(st, en, tx) ==
    [startTime |-> st, endTime |-> en, start |-> Undef, end |-> Undef,
     text |-> tx, hasWords |-> FALSE, words |-> <<>>]

\* a record written with the keys start / end
ShortRecord(st, en, tx) ==
    [startTime |-> Undef, endTime |-> Undef, start |-> st, end |-> en,
     text |-> tx, hasWords |-> FALSE, words |-> <<>>]

\* records for the versions that read startTime / endTime: an inverted
\* one, one that overlaps it, one with a garbage start and a missing end,
\* one with a number, and one written with the other pair of keys
LongPool ==
    { LongRecord(Str(Stamp(0, 0, 2, 0)), Str(Stamp(0, 0, 1, 0)), <<"b">>),
      LongRecord(Str(Stamp(0, 0, 1, 0)), Str(Stamp(0, 0, 3, 0)), <<" ", "c">>),
      LongRecord(Str(<<"x">>), Undef, <<"a">>),
      LongRecord(Num(3000), Str(<<"5">>), <<"b">>),
      ShortRecord(Str(ShortStamp(0, 1, 0)), Str(ShortStamp(0, 2, 500)), <<"a">>) }

\* records for the versions that read start / end (part_002): two in the
\* format their prompts ask for, one of them with an empty text, one with
\* a number, and one written with the other pair of keys
ShortPool ==
    { ShortRecord(Str(ShortStamp(0, 1, 0)), Str(ShortStamp(0, 2, 500)), <<"a">>),
      ShortRecord(Str(ShortStamp(0, 3, 0)), Str(ShortStamp(0, 4, 0)), <<>>),
      ShortRecord(Num(2000), Str(<<"5">>), <<"b">>),
      LongRecord(Str(Stamp(0, 0, 2, 0)), Str(Stamp(0, 0, 1, 0)), <<"b">>) }

PlainPool(v) == IF v \in {"p2_a", "p2_b"} THEN ShortPool ELSE LongPool

WordRecord(st, en, tx) == [startTime |-> st, endTime |-> en, text |-> tx]

WordPool ==
    { WordRecord(Str(Stamp(0, 0, 2, 0)), Str(Stamp(0, 0, 2, 500)), <<"b">>),
      WordRecord(Str(Stamp(0, 0, 1, 0)), Str(Stamp(0, 0, 1, 500)), <<"a">>),
      WordRecord(Str(<<"x">>), Undef, <<"a">>) }

PlainSeqs(v) == UNION {[1..n -> PlainPool(v)] : n \in 0..MaxSegs}

WordLists == UNION {[1..k -> WordPool] : k \in 0..MaxWords}

WithWords(rs, i, ws) == [rs EXCEPT ![i].hasWords = TRUE, ![i].words = ws]

TsIdle ==
    /\ ts = <<>> /\ norm = <<>> /\ norm2 = <<>> /\ secs = 0 /\ form = NoForm

PpInit ==
    /\ pc = "pp_start"
    /\ variant \in Variants
    \* a list of records of which at most one carries a words array; the
    \* versions that never read the key "words" get the plain lists only
    /\ \E rs \in PlainSeqs(variant) :
          \/ raw = rs
          \/ /\ variant \in WordVariants
             /\ \E i \in 1..Len(rs), ws \in WordLists : raw = WithWords(rs, i, ws)
    /\ out = NoOut
    /\ TsIdle
    /\ JsIdle
    /\ EmIdle
    /\ ExIdle
    /\ AppIdle

\* the return statement of transcribeAudio, or the exception leaving it
BuildSegments ==
    /\ pc = "pp_start"
    /\ out' = PostProcess(variant, raw)
    /\ pc' = "pp_done"
    /\ UNCHANGED <<variant, raw, tsVars, jsVars, emVars, exVars, apVars>>

PpNext == BuildSegments

SpecPost == PpInit /\ [][PpNext]_vars

(***************************************************************************)
(* The response text and JSON.parse.  The text is a sequence of tokens:    *)
(* the six punctuation characters, complete string literals, the           *)
(* unterminated string literal a truncation leaves behind, and the         *)
(* markdown fences.  A string literal holds the characters s followed by   *)
(* pad further letters; no string holds a quote, a brace or a bracket.     *)
(***************************************************************************)
Punct(c) == [t |-> c, s |-> "", pad |-> 0]

StrTok(s, pad) == [t |-> "str", s |-> s, pad |-> pad]

\* ```json at the start of the text, ``` at its end
FenceOpen == [t |-> "fence_json", s |-> "", pad |-> 0]

FenceClose == [t |-> "fence", s |-> "", pad |-> 0]

\* a string literal cut before its closing quote: after the opening quote
\* ("head") or after its last character ("tail")
CutTok(tok, where) ==
    IF where = "head" THEN [t |-> "cut", s |-> "", pad |-> 0]
    ELSE [t |-> "cut", s |-> tok.s, pad |-> tok.pad]

\* pad characters that are neither quotes, braces, brackets nor fences
Junk(pad) == [t |-> "junk", s |-> "", pad |-> pad]

\* the number of characters of a token
Width(tok) ==
    CASE tok.t = "str"        -> Len(tok.s) + tok.pad + 2
      [] tok.t = "junk"       -> tok.pad
      [] tok.t = "cut"        -> Len(tok.s) + tok.pad + 1
      [] tok.t = "fence_json" -> 7
      [] tok.t = "fence"      -> 3
      [] OTHER                -> 1

\* the number of characters of the tokens lo..hi
RECURSIVE CharSum(_, _, _)
CharSum(toks, lo, hi) ==
    IF lo > hi THEN 0
    ELSE IF lo = hi THEN Width(toks[lo])
    ELSE CharSum(toks, lo, (lo + hi) \div 2) + CharSum(toks, (lo + hi) \div 2 + 1, hi)

\* clean.length
CharLen(toks) == CharSum(toks, 1, Len(toks))

\* JSON values: strings, arrays and objects (keys and items in step)
JUndef == [k |-> "undef", s |-> "", pad |-> 0, keys |-> <<>>, items |-> <<>>]

JStr(s, pad) == [k |-> "str", s |-> s, pad |-> pad, keys |-> <<>>, items |-> <<>>]

JArr(items) == [k |-> "arr", s |-> "", pad |-> 0, keys |-> <<>>, items |-> items]

JObj(keys, items) == [k |-> "obj", s |-> "", pad |-> 0, keys |-> keys, items |-> items]

\* what JSON.parse consumed so far: the value and the next position
ParseFail == [ok |-> FALSE, val |-> JUndef, next |-> 0]

Parsed(val, next) == [ok |-> TRUE, val |-> val, next |-> next]

TokAt(toks, i) == IF i \in 1..Len(toks) THEN toks[i].t ELSE "eof"

RECURSIVE ParseValue(_, _), ParseItems(_, _, _), AfterItem(_, _, _),
          ParseMembers(_, _, _, _), AfterMember(_, _, _, _)
\* a JSON value that starts at position i
ParseValue(toks, i) ==
    CASE TokAt(toks, i) = "str" -> Parsed(JStr(toks[i].s, toks[i].pad), i + 1)
      [] TokAt(toks, i) = "[" ->
            IF TokAt(toks, i + 1) = "]" THEN Parsed(JArr(<<>>), i + 2)
            ELSE ParseItems(toks, i + 1, <<>>)
      [] TokAt(toks, i) = "{" ->
            IF TokAt(toks, i + 1) = "}" THEN Parsed(JObj(<<>>, <<>>), i + 2)
            ELSE ParseMembers(toks, i + 1, <<>>, <<>>)
      [] OTHER -> ParseFail

\* an array item at position i, after the items acc
ParseItems(toks, i, acc) == AfterItem(toks, ParseValue(toks, i), acc)

AfterItem(toks, r, acc) ==
    IF ~r.ok THEN ParseFail
    ELSE CASE TokAt(toks, r.next) = "]" -> Parsed(JArr(Append(acc, r.val)), r.next + 1)
           [] TokAt(toks, r.next) = "," -> ParseItems(toks, r.next + 1, Append(acc, r.val))
           [] OTHER -> ParseFail

\* an object member at position i, after the members keys / vals
ParseMembers(toks, i, keys, vals) ==
    IF TokAt(toks, i) = "str" /\ TokAt(toks, i + 1) = ":"
    THEN AfterMember(toks, ParseValue(toks, i + 2), Append(keys, toks[i].s), vals)
    ELSE ParseFail

AfterMember(toks, r, keys, vals) ==
    IF ~r.ok THEN ParseFail
    ELSE CASE TokAt(toks, r.next) = "}" -> Parsed(JObj(keys, Append(vals, r.val)), r.next + 1)
           [] TokAt(toks, r.next) = "," -> ParseMembers(toks, r.next + 1, keys, Append(vals, r.val))
           [] OTHER -> ParseFail

\* the whole text is one value
WholeText(toks, r) == IF r.ok /\ r.next = Len(toks) + 1 THEN r ELSE ParseFail

\* JSON.parse(text): ok is FALSE where it throws a SyntaxError
JSONparse(toks) == WholeText(toks, ParseValue(toks, 1))

\* JSON.stringify, as the service writes its documents
RECURSIVE Stringify(_), StringifyItems(_, _), StringifyMembers(_, _, _)
Stringify(v) ==
    CASE v.k = "str" -> <<StrTok(v.s, v.pad)>>
      [] v.k = "arr" -> <<Punct("[")>> \o StringifyItems(v.items, 1) \o <<Punct("]")>>
      [] OTHER       -> <<Punct("{")>> \o StringifyMembers(v.keys, v.items, 1) \o <<Punct("}")>>

StringifyItems(items, i) ==
    IF i > Len(items) THEN <<>>
    ELSE (IF i > 1 THEN <<Punct(",")>> ELSE <<>>)
         \o Stringify(items[i]) \o StringifyItems(items, i + 1)

StringifyMembers(keys, items, i) ==
    IF i > Len(keys) THEN <<>>
    ELSE (IF i > 1 THEN <<Punct(",")>> ELSE <<>>)
         \o <<StrTok(keys[i], 0), Punct(":")>> \o Stringify(items[i])
         \o StringifyMembers(keys, items, i + 1)

\* obj[key]: undefined when obj is no object or has no such key
RECURSIVE GetFrom(_, _, _)
GetFrom(v, key, i) ==
    IF i > Len(v.keys) THEN JUndef
    ELSE IF v.keys[i] = key THEN v.items[i]
    ELSE GetFrom(v, key, i + 1)

Get(v, key) == IF v.k = "obj" THEN GetFrom(v, key, 1) ELSE JUndef

\* JavaScript truthiness: undefined and "" are falsy
Truthy(v) == v.k \in {"arr", "obj"} \/ (v.k = "str" /\ Len(v.s) + v.pad > 0)

IsArray(v) == v.k = "arr"

\* { segments: v }
WrapSegments(v) == JObj(<<"segments">>, <<v>>)

(***************************************************************************)
(* tryRepairJson, in the versions of geminiService.ts and part_001         *)
(***************************************************************************)
JsonVariants == {"gs_a", "gs_b", "p1"}

\* a value returned, or an Error thrown; the Error object has a name and a
\* fixed message, and carries nothing else
NoError == [name |-> "", message |-> "", carries |-> <<>>]

Returns(v) == [threw |-> FALSE, val |-> v, err |-> NoError]

Throws(msg) ==
    [threw |-> TRUE, val |-> JUndef,
     err   |-> [name |-> "Error", message |-> msg, carries |-> <<>>]]

NoResult == Returns(JUndef)

Least(S) == IF S = {} THEN 0 ELSE CHOOSE i \in S : \A j \in S : i <= j

Greatest(S) == IF S = {} THEN 0 ELSE CHOOSE i \in S : \A j \in S : i >= j

\* indexOf and lastIndexOf of a punctuation character; 0 for "not found"
IndexOf(toks, c, from) == Least({i \in from..Len(toks) : toks[i].t = c})

LastIndexOf(toks, c, upto) == Greatest({i \in 1..upto : toks[i].t = c})

\* text.includes('"segments"')
HasSegmentsKey(toks) ==
    \E i \in 1..Len(toks) : toks[i] = StrTok("segments", 0)

\* replace(/^```json/, '')
StripFenceOpen(toks) ==
    IF TokAt(toks, 1) = "fence_json" THEN Tail(toks) ELSE toks

\* replace(/^```\s*/, '')
StripFencePlain(toks) ==
    IF TokAt(toks, 1) = "fence" THEN Tail(toks) ELSE toks

\* replace(/```$/, '')
StripFenceClose(toks) ==
    IF TokAt(toks, Len(toks)) = "fence" THEN SubSeq(toks, 1, Len(toks) - 1) ELSE toks

\* the first ``` after position i
NextFence(toks, i) == Least({j \in i..Len(toks) : toks[j].t \in {"fence", "fence_json"}})

\* jsonString.match(/```json([\s\S]*?)```/i): the text between the fences
FencedBody(toks, open, close) ==
    IF open # 0 /\ close # 0
    THEN SubSeq(toks, open + 1, close - 1)
    ELSE StripFenceClose(StripFenceOpen(toks))

\* the clean-up each version starts with
CleanText(v, toks) ==
    CASE v = "gs_a" -> StripFenceClose(StripFenceOpen(toks))
      [] v = "gs_b" -> FencedBody(toks, IndexOf(toks, "fence_json", 1),
                                  NextFence(toks, IndexOf(toks, "fence_json", 1) + 1))
      [] OTHER      -> StripFenceClose(StripFencePlain(StripFenceOpen(toks)))

\* ---- geminiService.ts, first version ----
\* the text up to its last '}', closed with ']}' or with '}'
ClosedCandidate(clean, lastBrace, lastBracket) ==
    SubSeq(clean, 1, lastBrace)
      \o (IF lastBracket < lastBrace THEN <<Punct("]"), Punct("}")>> ELSE <<Punct("}")>>)

\* step 1: the segments list is there but the closing braces are missing
CloseTruncated(clean) ==
    IF HasSegmentsKey(clean) /\ LastIndexOf(clean, "}", Len(clean)) # 0
    THEN JSONparse(ClosedCandidate(clean, LastIndexOf(clean, "}", Len(clean)),
                                   LastIndexOf(clean, "]", Len(clean))))
    ELSE ParseFail

\* step 2: the longest substring from the first '[' that parses as an array
ArrayEnds(clean, arrayStart) ==
    {i \in (arrayStart + 1)..Len(clean) : JSONparse(SubSeq(clean, arrayStart, i)).ok}

LargestArrayOf(clean, arrayStart, end) ==
    IF end = 0 THEN ParseFail ELSE JSONparse(SubSeq(clean, arrayStart, end))

LargestArray(clean, arrayStart) ==
    IF arrayStart = 0 THEN ParseFail
    ELSE LargestArrayOf(clean, arrayStart, Greatest(ArrayEnds(clean, arrayStart)))

RepairStepsA(clean, closed, array) ==
    IF closed.ok /\ Truthy(Get(closed.val, "segments")) THEN Returns(closed.val)
    ELSE IF array.ok /\ IsArray(array.val) THEN Returns(WrapSegments(array.val))
    ELSE Throws("Transcription response malformed. The conversation might be too complex or long. Try using a shorter clip or a different granularity.")

tryRepairJsonA(clean, direct) ==
    IF direct.ok THEN Returns(direct.val)
    ELSE RepairStepsA(clean, CloseTruncated(clean),
                      LargestArray(clean, IndexOf(clean, "[", 1)))

\* ---- geminiService.ts, second version ----
\* the safety valve of the loop over the closing braces
MaxAttempts == 10

CandidateResult(plain, closed, inSegments, otherwise) ==
    IF plain.ok THEN Returns(plain.val)
    ELSE IF inSegments /\ closed.ok THEN Returns(closed.val)
    ELSE otherwise

\* the while loop: substrings from the first '{' to one '}' after another
RECURSIVE BraceLoop(_, _, _, _)
BraceLoop(clean, firstBrace, endIdx, attempts) ==
    IF endIdx > firstBrace /\ attempts < MaxAttempts
    THEN CandidateResult(
            JSONparse(SubSeq(clean, firstBrace, endIdx)),
            JSONparse(SubSeq(clean, firstBrace, endIdx) \o <<Punct("]"), Punct("}")>>),
            HasSegmentsKey(SubSeq(clean, firstBrace, endIdx)),
            BraceLoop(clean, firstBrace, LastIndexOf(clean, "}", endIdx - 1), attempts + 1))
    ELSE Throws("Transcription response malformed and unrecoverable.")

tryRepairJsonB(clean, direct) ==
    IF direct.ok THEN Returns(direct.val)
    ELSE IF IndexOf(clean, "{", 1) = 0 THEN Throws("No JSON structure found in response.")
    ELSE BraceLoop(clean, IndexOf(clean, "{", 1), LastIndexOf(clean, "}", Len(clean)), 0)

\* ---- part_001 ----
\* the optimistic parse: hit is FALSE where the code falls through to the
\* repairs
NoHit == [hit |-> FALSE, val |-> JUndef]

Hit(v) == [hit |-> TRUE, val |-> v]

OptimisticParse(direct) ==
    IF ~direct.ok THEN NoHit
    ELSE IF Truthy(Get(direct.val, "segments")) /\ IsArray(Get(direct.val, "segments"))
         THEN Hit(direct.val)
    ELSE IF IsArray(direct.val) THEN Hit(WrapSegments(direct.val))
    ELSE IF Truthy(Get(direct.val, "startTime")) /\ Truthy(Get(direct.val, "text"))
         THEN Hit(WrapSegments(JArr(<<direct.val>>)))
    ELSE IF Truthy(Get(direct.val, "segments")) THEN Hit(direct.val)
    ELSE NoHit

\* the search of the truncation repair looks at this many last characters
SearchWindow == 2000

SearchLimit(clean) ==
    IF CharLen(clean) - SearchWindow > 0 THEN CharLen(clean) - SearchWindow ELSE 0

\* strategies A, B and C on the text up to one '}'
PatchResult(a, b, c, otherwise) ==
    IF a.ok /\ Truthy(Get(a.val, "segments")) /\ IsArray(Get(a.val, "segments"))
    THEN Hit(a.val)
    ELSE IF b.ok /\ IsArray(b.val) THEN Hit(WrapSegments(b.val))
    ELSE IF c.ok /\ Truthy(Get(c.val, "segments")) THEN Hit(c.val)
    ELSE otherwise

\* the for loop, from one '}' to the one before it: i is the token, and
\* the index of its character must not be below the limit
RECURSIVE TruncationRepair(_, _, _)
TruncationRepair(clean, i, limit) ==
    IF i < 1 \/ CharSum(clean, 1, i) - 1 < limit THEN NoHit
    ELSE PatchResult(
            JSONparse(SubSeq(clean, 1, i) \o <<Punct("]"), Punct("}")>>),
            JSONparse(SubSeq(clean, 1, i) \o <<Punct("]")>>),
            JSONparse(SubSeq(clean, 1, i) \o <<Punct("}")>>),
            TruncationRepair(clean, LastIndexOf(clean, "}", i - 1), limit))

\* "key" : "value" at position i, as the fallback's regular expression
\* reads it: the start and end times must not be empty
KeyValueAt(toks, i, key, nonEmpty) ==
    /\ TokAt(toks, i) = "str" /\ toks[i].s = key /\ toks[i].pad = 0
    /\ TokAt(toks, i + 1) = ":"
    /\ TokAt(toks, i + 2) = "str"
    /\ (nonEmpty => Len(toks[i + 2].s) + toks[i + 2].pad > 0)

NextKeyValue(toks, from, key, nonEmpty) ==
    Least({i \in from..Len(toks) : KeyValueAt(toks, i, key, nonEmpty)})

\* the value of the key found at position i
ValueAt(toks, i) == JStr(toks[i + 2].s, toks[i + 2].pad)

\* one match of the regular expression: a is where "startTime" was found,
\* b where "endTime", c where "text"; 0 for no match
ScrapedSegment(toks, a, b, c) ==
    IF Truthy(ValueAt(toks, c))
    THEN <<JObj(<<"startTime", "endTime", "text">>,
                <<ValueAt(toks, a), ValueAt(toks, b), ValueAt(toks, c)>>)>>
    ELSE <<>>

RECURSIVE RegexScrape(_, _), ScrapeFrom(_, _, _, _)
\* the while loop over regex.exec, from position from
RegexScrape(toks, from) ==
    ScrapeFrom(toks, NextKeyValue(toks, from, "startTime", TRUE), 0, 0)

\* finds b after a and c after b, then goes on after the match
ScrapeFrom(toks, a, b, c) ==
    IF a = 0 THEN <<>>
    ELSE IF b = 0
         THEN IF NextKeyValue(toks, a + 3, "endTime", TRUE) = 0 THEN <<>>
              ELSE ScrapeFrom(toks, a, NextKeyValue(toks, a + 3, "endTime", TRUE), 0)
    ELSE IF c = 0
         THEN IF NextKeyValue(toks, b + 3, "text", FALSE) = 0 THEN <<>>
              ELSE ScrapeFrom(toks, a, b, NextKeyValue(toks, b + 3, "text", FALSE))
    ELSE ScrapedSegment(toks, a, b, c) \o RegexScrape(toks, c + 3)

RegexFallback(found) ==
    IF Len(found) > 0 THEN Returns(WrapSegments(JArr(found)))
    ELSE Throws("Transcription response malformed. The conversation might be too complex or long.")

RepairStepsP1(clean, optimistic, truncation) ==
    IF optimistic.hit THEN Returns(optimistic.val)
    ELSE IF truncation.hit THEN Returns(truncation.val)
    ELSE RegexFallback(RegexScrape(clean, 1))

tryRepairJsonP1(clean, direct) ==
    RepairStepsP1(clean, OptimisticParse(direct),
                  TruncationRepair(clean, LastIndexOf(clean, "}", Len(clean)),
                                   SearchLimit(clean)))

\* tryRepairJson(text) of version v
tryRepairJson(v, txt) ==
    CASE v = "gs_a" -> tryRepairJsonA(CleanText(v, txt), JSONparse(CleanText(v, txt)))
      [] v = "gs_b" -> tryRepairJsonB(CleanText(v, txt), JSONparse(CleanText(v, txt)))
      [] OTHER      -> tryRepairJsonP1(CleanText(v, txt), JSONparse(CleanText(v, txt)))

\* transcribeAudio after the repair: the error of the repair leaves the
\* function, a value without a segments array is refused, anything else
\* goes on to the post-processing
AcceptCheck(rep) ==
    IF rep.threw THEN "repair_error"
    ELSE IF ~Truthy(Get(rep.val, "segments")) \/ ~IsArray(Get(rep.val, "segments"))
         THEN "invalid_format"
    ELSE "accepted"

(***************************************************************************)
(* Inputs of the repair: documents as the model writes them, whole or cut  *)
(* off after any token or inside any string literal                        *)
(***************************************************************************)
MaxRecs == 2

\* the number of words of the long word list
ManyWords == 10

\* the extra characters of the long text
LongPad == 2000

JsonWord(tx) ==
    JObj(<<"startTime", "endTime", "text">>,
         <<JStr("00:00:01.000", 0), JStr("00:00:01.500", 0), JStr(tx, 0)>>)

RECURSIVE JsonWords(_)
JsonWords(n) == IF n = 0 THEN <<>> ELSE Append(JsonWords(n - 1), JsonWord("w"))

PlainRec(tx, pad) ==
    JObj(<<"startTime", "endTime", "text">>,
         <<JStr("00:00:01.000", 0), JStr("00:00:02.000", 0), JStr(tx, pad)>>)

WordsRec(n) ==
    JObj(<<"startTime", "endTime", "words", "text">>,
         <<JStr("00:00:01.000", 0), JStr("00:00:02.000", 0), JArr(JsonWords(n)),
           JStr("a", 0)>>)

\* records that may stand anywhere, and records that only end a document
JsonRecs == {PlainRec("a", 0), WordsRec(1)}

LastRecs == {WordsRec(ManyWords), PlainRec("la", LongPad)}

JsonRecLists ==
    UNION {[1..n -> JsonRecs] : n \in 1..MaxRecs}
      \cup {Append(rs, r) : rs \in UNION {[1..n -> JsonRecs] : n \in 1..(MaxRecs - 1)},
                            r \in LastRecs}

\* a record that lacks its endTime, and the documents it stands in: alone or
\* before a whole record with other times and another text
NoEndRec ==
    JObj(<<"startTime", "text">>, <<JStr("00:00:00.000", 0), JStr("b", 0)>>)

LaterRec ==
    JObj(<<"startTime", "endTime", "text">>,
         <<JStr("00:00:03.000", 0), JStr("00:00:04.000", 0), JStr("c", 0)>>)

GapRecLists == {<<NoEndRec>>, <<NoEndRec, LaterRec>>}

Shapes == {"segments", "array", "single", "segments_string", "other"}

\* the value the service meant to send
DocValue(d) ==
    CASE d.shape = "segments" -> WrapSegments(JArr(d.recs))
      [] d.shape = "array"    -> JArr(d.recs)
      [] d.shape = "single"   -> d.recs[1]
      [] d.shape = "segments_string" -> WrapSegments(JStr("x", 0))
      [] OTHER                -> JObj(<<"note">>, <<JStr("x", 0)>>)

FullText(d) ==
    (IF d.fenced THEN <<FenceOpen>> ELSE <<>>)
      \o Stringify(DocValue(d))
      \o (IF d.fenced THEN <<FenceClose>> ELSE <<>>)

\* the first keep tokens of the text, and the head or the tail of the
\* string literal that follows them when the cut falls inside it
CutText(full, keep, cut) ==
    SubSeq(full, 1, keep)
      \o (IF cut = "none" THEN <<>> ELSE <<CutTok(full[keep + 1], cut)>>)

\* what may follow a complete document: nothing, a remark, a remark with
\* braces of its own, a remark longer than the search window
Trails ==
    { <<>>,
      <<Junk(15)>>,
      <<Junk(5), Punct("{"), Junk(4), Punct("}")>>,
      <<Junk(LongPad + 1)>> }

DocText(d) == CutText(FullText(d), d.keep, d.cut) \o d.trail

Truncated(d) == d.keep < Len(FullText(d))

\* the position of the '}' that closes record k of a "segments" document
RECURSIVE RecordEnd(_, _)
RecordEnd(d, k) ==
    IF k = 0 THEN (IF d.fenced THEN 4 ELSE 3)
    ELSE RecordEnd(d, k - 1) + 1 + Len(Stringify(d.recs[k]))

\* the records that are complete before the cut
RECURSIVE CompleteRecords(_, _)
CompleteRecords(d, k) ==
    IF k > Len(d.recs) \/ RecordEnd(d, k) > d.keep THEN <<>>
    ELSE <<d.recs[k]>> \o CompleteRecords(d, k + 1)

JsInit ==
    /\ pc = "js_start"
    /\ variant \in JsonVariants
    /\ \E shape \in Shapes, recs \in JsonRecLists \cup GapRecLists \cup {<<>>},
          fenced \in BOOLEAN, trail \in Trails :
          \* an empty list only in a complete {"segments":[]} with a trail
          /\ recs = <<>> => trail # <<>>
          \* a record without endTime only before the long remark
          /\ recs \in GapRecLists => trail = <<Junk(LongPad + 1)>>
          /\ trail # <<>> => shape = "segments" /\ ~fenced
          /\ shape \in {"single", "segments_string", "other"} => Len(recs) = 1
          /\ shape \in {"segments_string", "other"} => recs = <<PlainRec("a", 0)>>
          /\ \E keep \in 0..Len(FullText([shape |-> shape, recs |-> recs, fenced |-> fenced])),
                cut \in {"none", "head", "tail"} :
                /\ cut # "none" =>
                      TokAt(FullText([shape |-> shape, recs |-> recs, fenced |-> fenced]),
                            keep + 1) = "str"
                /\ trail # <<>> =>
                      /\ cut = "none"
                      /\ keep = Len(FullText([shape |-> shape, recs |-> recs,
                                              fenced |-> fenced]))
                /\ doc = [shape |-> shape, recs |-> recs, fenced |-> fenced,
                          keep |-> keep, cut |-> cut, trail |-> trail]
    /\ text = DocText(doc)
    /\ repaired = NoResult
    /\ verdict = "none"
    /\ TsIdle
    /\ PpIdle
    /\ EmIdle
    /\ ExIdle
    /\ AppIdle

\* const rawData = tryRepairJson(text)
Repair ==
    /\ pc = "js_start"
    /\ repaired' = tryRepairJson(variant, text)
    /\ pc' = "js_repaired"
    /\ UNCHANGED <<variant, doc, text, verdict, tsVars, ppVars, emVars, exVars, apVars>>

\* if (!rawData.segments || !Array.isArray(rawData.segments)) throw ...
Accept ==
    /\ pc = "js_repaired"
    /\ verdict' = AcceptCheck(repaired)
    /\ pc' = "js_done"
    /\ UNCHANGED <<variant, doc, text, repaired, tsVars, ppVars, emVars, exVars, apVars>>

JsNext == Repair \/ Accept

SpecJson == JsInit /\ [][JsNext]_vars

(***************************************************************************)
(* utils/timeUtils.ts: the subtitle writers.  A segment's start and end    *)
(* are seconds held as an integer number of ticks of 0.1 ms, so that       *)
(* Math.round(seconds * 1000) has something to round; NaN is the same      *)
(* negative sentinel as above (every formatter of timeUtils.ts answers     *)
(* NaN and a negative number alike; the first version in part_000 tests    *)
(* isNaN only, and negative numbers are not among the inputs).  A          *)
(* character outside ASCII is written by its code unit, "U+3042".          *)
(***************************************************************************)
\* milliseconds, written as ticks
Ms(n) == n * 10

\* a + b and a - b of two JavaScript numbers
Plus(a, b) == IF a = NaN \/ b = NaN THEN NaN ELSE a + b

Minus(a, b) == IF a = NaN \/ b = NaN THEN NaN ELSE a - b

\* Math.floor(seconds * scale), scale being 100 or 1000 and a second 10000
\* ticks
MathFloor(seconds, scale) == seconds \div (10000 \div scale)

\* Math.round(seconds * scale): the nearest integer, a half going up
MathRound(seconds, scale) ==
    (seconds + (10000 \div scale) \div 2) \div (10000 \div scale)

pad(num, size) == PadStart(NatToStr(num), size)

formatToSRTTime(seconds) ==
    IF seconds < 0 THEN <<"0", "0", ":", "0", "0", ":", "0", "0", ",", "0", "0", "0">>
    ELSE LET totalMs      == MathRound(seconds, 1000)
             ms           == totalMs % 1000
             totalSeconds == totalMs \div 1000
             sec          == totalSeconds % 60
             totalMinutes == totalSeconds \div 60
             min          == totalMinutes % 60
             hour         == totalMinutes \div 60
         IN  pad(hour, 2) \o <<":">> \o pad(min, 2) \o <<":">> \o pad(sec, 2)
                 \o <<",">> \o pad(ms, 3)

\* formatToTTMLTime with Math.floor in the place of Math.round
formatToTTMLTimeTruncated(seconds) ==
    IF seconds < 0 THEN <<"0", "0", ":", "0", "0", ":", "0", "0", ".", "0", "0", "0">>
    ELSE LET totalMs      == MathFloor(seconds, 1000)
             ms           == totalMs % 1000
             totalSeconds == totalMs \div 1000
             sec          == totalSeconds % 60
             totalMinutes == totalSeconds \div 60
             min          == totalMinutes % 60
             hour         == totalMinutes \div 60
         IN  pad(hour, 2) \o <<":">> \o pad(min, 2) \o <<":">> \o pad(sec, 2)
                 \o <<".">> \o pad(ms, 3)

formatToTTMLTime(seconds) ==
    IF seconds < 0 THEN <<"0", "0", ":", "0", "0", ":", "0", "0", ".", "0", "0", "0">>
    ELSE LET totalMs      == MathRound(seconds, 1000)
             ms           == totalMs % 1000
             totalSeconds == totalMs \div 1000
             sec          == totalSeconds % 60
             totalMinutes == totalSeconds \div 60
             min          == totalMinutes % 60
             hour         == totalMinutes \div 60
         IN  pad(hour, 2) \o <<":">> \o pad(min, 2) \o <<":">> \o pad(sec, 2)
                 \o <<".">> \o pad(ms, 3)

formatToLRCTime(seconds) ==
    IF seconds < 0 THEN <<"[", "0", "0", ":", "0", "0", ".", "0", "0", "]">>
    ELSE LET totalCentiseconds == MathRound(seconds, 100)
             centis            == totalCentiseconds % 100
             totalSeconds      == totalCentiseconds \div 100
             sec               == totalSeconds % 60
             min               == totalSeconds \div 60
         IN  <<"[">> \o pad(min, 2) \o <<":">> \o pad(sec, 2) \o <<".">>
                 \o pad(centis, 2) \o <<"]">>

\* Array.prototype.join
RECURSIVE Join(_, _)
Join(parts, sep) ==
    IF parts = <<>> THEN <<>>
    ELSE IF Len(parts) = 1 THEN parts[1]
    ELSE parts[1] \o sep \o Join(Tail(parts), sep)

Arrow == <<" ", "-", "-", ">", " ">>

\* the template literal of generateSRT, index counting from 0, but every
\* entry numbered 1
SrtEntryAllFirst(seg, index) ==
    NatToStr(1) \o <<"\n">>
        \o formatToSRTTime(seg.start) \o Arrow \o formatToSRTTime(seg.end) \o <<"\n">>
        \o seg.text \o <<"\n">>

\* the template literal of generateSRT, index counting from 0
SrtEntry(seg, index) ==
    NatToStr(index + 1) \o <<"\n">>
        \o formatToSRTTime(seg.start) \o Arrow \o formatToSRTTime(seg.end) \o <<"\n">>
        \o seg.text \o <<"\n">>

RECURSIVE SrtEntries(_, _)
SrtEntries(segs, index) ==
    IF index >= Len(segs) THEN <<>>
    ELSE <<SrtEntry(segs[index + 1], index)>> \o SrtEntries(segs, index + 1)

generateSRT(segs) == Join(SrtEntries(segs, 0), <<"\n">>)

\* the versions of the file: timeUtils.ts (part_000 from line 113 is the
\* same without the TTML writer) and part_000 up to line 110
WriterVariants == {"tu", "p0_a"}

\* gap > 4.0, a NaN comparing false, with >= in the place of >
GapReaches(gap) == gap # NaN /\ gap >= 40000

\* gap > 4.0, a NaN comparing false
GapExceeds(gap) == gap # NaN /\ gap > 40000

\* how long after a segment's end the clear line between two segments is put
ClearDelay(v) == IF v = "p0_a" THEN 40000 ELSE 10000

LrcTag(name, value) == <<"[">> \o name \o <<":">> \o value \o <<"]">>

DefaultBy == <<"L", "y", "r", "i", "c", "F", "l", "o", "w", " ", "A", "I">>

LrcHeaders(meta) ==
    (IF meta.title # <<>> THEN <<LrcTag(<<"t", "i">>, meta.title)>> ELSE <<>>)
    \o (IF meta.artist # <<>> THEN <<LrcTag(<<"a", "r">>, meta.artist)>> ELSE <<>>)
    \o (IF meta.album # <<>> THEN <<LrcTag(<<"a", "l">>, meta.album)>> ELSE <<>>)
    \o <<LrcTag(<<"b", "y">>, IF meta.by # <<>> THEN meta.by ELSE DefaultBy)>>

\* audioDuration > 0 && targetBlankTime <= audioDuration, with < in the
\* place of <=
FitsBefore(targetBlankTime, duration) ==
    duration > 0 /\ targetBlankTime # NaN /\ targetBlankTime < duration

\* audioDuration > 0 && targetBlankTime <= audioDuration, a NaN comparing
\* false
FitsWithin(targetBlankTime, duration) ==
    duration > 0 /\ targetBlankTime # NaN /\ targetBlankTime <= duration

\* the lines pushed after the line of segment i
LrcAfter(v, segs, i, duration) ==
    IF i < Len(segs)
    THEN IF GapExceeds(Minus(segs[i + 1].start, segs[i].end))
         THEN <<formatToLRCTime(Plus(segs[i].end, ClearDelay(v)))>>
         ELSE <<>>
    ELSE LET targetBlankTime == Plus(segs[i].end, 40000)
         IN  IF v = "p0_a" THEN <<formatToLRCTime(targetBlankTime)>>
             ELSE IF FitsWithin(targetBlankTime, duration)
                  THEN <<formatToLRCTime(targetBlankTime)>>
                  ELSE <<>>

RECURSIVE LrcLines(_, _, _, _)
LrcLines(v, segs, i, duration) ==
    IF i > Len(segs) THEN <<>>
    ELSE <<formatToLRCTime(segs[i].start) \o segs[i].text>>
             \o LrcAfter(v, segs, i, duration)
             \o LrcLines(v, segs, i + 1, duration)

generateLRC(v, segs, meta, duration) ==
    Join(LrcHeaders(meta) \o LrcLines(v, segs, 1, duration), <<"\n">>)

\* the UTF-16 code unit of a character of the texts
CodeUnit(c) ==
    CASE c = " "      -> 32
      [] c = "\""     -> 34
      [] c = "&"      -> 38
      [] c = "'"      -> 39
      [] c = ";"      -> 59
      [] c = "<"      -> 60
      [] c = ">"      -> 62
      [] c = "X"      -> 88
      [] c = "a"      -> 97
      [] c = "b"      -> 98
      [] c = "U+3042" -> 12354
      [] c = "U+30AB" -> 12459
      [] c = "U+4E2D" -> 20013
      [] c = "U+D55C" -> 54620
      [] c = "U+FF76" -> 65398

\* /[\u3040-\u30ff\u3400-\u4dbf\u4e00-\u9fff\uf900-\ufaff\uff66-\uff9f]/
CJKClass(u) ==
    \/ (u >= 12352 /\ u <= 12543)
    \/ (u >= 13312 /\ u <= 19903)
    \/ (u >= 19968 /\ u <= 40959)
    \/ (u >= 63744 /\ u <= 64255)
    \/ (u >= 65382 /\ u <= 65439)

hasCJK(str) == \E i \in 1..Len(str) : CJKClass(CodeUnit(str[i]))

\* String.prototype.replace with a global one-character pattern
RECURSIVE ReplaceAll(_, _, _)
ReplaceAll(str, c, by) ==
    IF str = <<>> THEN <<>>
    ELSE (IF Head(str) = c THEN by ELSE <<Head(str)>>) \o ReplaceAll(Tail(str), c, by)

escape(str) ==
    ReplaceAll(
      ReplaceAll(
        ReplaceAll(
          ReplaceAll(
            ReplaceAll(str, "&", <<"&", "a", "m", "p", ";">>),
            "<", <<"&", "l", "t", ";">>),
          ">", <<"&", "g", "t", ";">>),
        "\"", <<"&", "q", "u", "o", "t", ";">>),
      "'", <<"&", "a", "p", "o", "s", ";">>)

\* The fixed markup of the TTML template, each stretch kept as one element
\* of the output; what the template interpolates is written character by
\* character between them.
DocOpen ==
    "<?xml version=\"1.0\" encoding=\"UTF-8\"?>\n<tt xmlns=\"http://www.w3.org/ns/ttml\" xmlns:tts=\"http://www.w3.org/ns/ttml#styling\" xml:lang=\"mul\">\n  <head>\n    <metadata>\n      <ttm:title xmlns:ttm=\"http://www.w3.org/ns/ttml#metadata\">"

TitleClose ==
    "</ttm:title>\n    </metadata>\n    <styling>\n      <style xml:id=\"s1\" tts:fontSize=\"100%\" tts:fontFamily=\"sansSerif\" tts:color=\"white\" />\n    </styling>\n  </head>\n  <body>\n    <div>\n"

DocClose == "\n    </div>\n  </body>\n</tt>"

POpen == "      <p begin=\""

SpanOpen == "<span begin=\""

EndAttr == "\" end=\""

TagEnd == "\">"

PClose == "</p>"

SpanClose == "</span>"

DefaultTitle == <<"L", "y", "r", "i", "c", "s">>

TtmlSpan(word, index, count) ==
    LET isLastWord         == index = count - 1
        needsTrailingSpace == ~hasCJK(word.text) /\ ~isLastWord
        content            == escape(word.text)
                                  \o (IF needsTrailingSpace THEN <<" ">> ELSE <<>>)
    IN  <<SpanOpen>> \o formatToTTMLTime(word.start) \o <<EndAttr>>
            \o formatToTTMLTime(word.end) \o <<TagEnd>> \o content \o <<SpanClose>>

RECURSIVE TtmlSpans(_, _)
TtmlSpans(words, index) ==
    IF index >= Len(words) THEN <<>>
    ELSE TtmlSpan(words[index + 1], index, Len(words)) \o TtmlSpans(words, index + 1)

TtmlParagraph(seg) ==
    <<POpen>> \o formatToTTMLTime(seg.start) \o <<EndAttr>>
        \o formatToTTMLTime(seg.end) \o <<TagEnd>>
        \o (IF Len(seg.words) > 0 THEN TtmlSpans(seg.words, 0) ELSE escape(seg.text))
        \o <<PClose>>

RECURSIVE TtmlParagraphs(_, _)
TtmlParagraphs(segs, i) ==
    IF i > Len(segs) THEN <<>>
    ELSE <<TtmlParagraph(segs[i])>> \o TtmlParagraphs(segs, i + 1)

generateTTML(segs, meta) ==
    LET title       == IF meta.title # <<>> THEN meta.title ELSE DefaultTitle
        bodyContent == Join(TtmlParagraphs(segs, 1), <<"\n">>)
    IN  <<DocOpen>> \o title \o <<TitleClose>> \o bodyContent \o <<DocClose>>

(***************************************************************************)
(* Inputs of the writers                                                   *)
(***************************************************************************)
MaxWrite == 2

MaxOffsets == 300

NoWords == <<>>

Seg(start, end, txt) == [start |-> start, end |-> end, text |-> txt, words |-> NoWords]

Word(start, end, txt) == [start |-> start, end |-> end, text |-> txt]

WordTexts ==
    {<<"a">>, <<"U+3042">>, <<"U+30AB">>, <<"U+4E2D">>, <<"U+D55C">>, <<"U+FF76">>,
     <<"a", "&", "b">>}

WordPairs ==
    {<<Word(Ms(28106), Ms(30000), w1), Word(Ms(30000), Ms(34510), w2)>> :
        w1 \in WordTexts, w2 \in {<<"a">>, <<"U+4E2D">>}}

SegPool ==
    { Seg(0, Ms(1000), <<"a">>),
      Seg(Ms(5000), Ms(6000), <<"X">>),
      Seg(50001, Ms(7000), <<>>),
      Seg(Ms(28106), Ms(34510), <<"X">>),
      Seg(281055, Ms(3600000), <<"a", " ", "b">>),
      Seg(Ms(6000000), NaN, <<"&", "<", ">", "\"", "'">>),
      Seg(NaN, Ms(59996), <<"&", "a", "m", "p", ";">>) }

WordSegs == {[Seg(Ms(28106), Ms(34510), <<"X">>) EXCEPT !.words = ws] : ws \in WordPairs}

SegLists == UNION {[1..n -> SegPool] : n \in 0..MaxWrite}

MetaPool == {NoMeta, Meta(<<"a", "&", "b">>, <<"a">>), Meta(<<"<", "X", ">">>, <<>>)}

DurationPool == {0, Ms(10000)}

\* single segments whose start sweeps across a second, a minute, an hour
\* and the hundredth minute
StampBases == {0, 599000, 35999000, 59999000}

StampTimes == {base + 7 * k : base \in StampBases, k \in 0..MaxOffsets}

\* starts that round up into the next second, minute and hour (0.9995 s,
\* 59.9995 s, 3599.9996 s), and a negative start
EdgeTimes == {9995, 599995, 35999996, 0 - 5000}

Solo(t) == Seg(t, t + Ms(1000), <<"X">>)

\* the lines of an SRT text that hold the two stamps, each read back with
\* one version of normalizeTimestamp and timestampToSeconds
HasArrow(line) == \E i \in 1..(Len(line) - 4) : SubSeq(line, i, i + 4) = Arrow

ArrowAt(line) == CHOOSE i \in 1..(Len(line) - 4) : SubSeq(line, i, i + 4) = Arrow

StampsOf(line) ==
    <<SubSeq(line, 1, ArrowAt(line) - 1), SubSeq(line, ArrowAt(line) + 5, Len(line))>>

RECURSIVE StampLines(_)
StampLines(lines) ==
    IF lines = <<>> THEN <<>>
    ELSE (IF HasArrow(Head(lines)) THEN <<StampsOf(Head(lines))>> ELSE <<>>)
             \o StampLines(Tail(lines))

RECURSIVE ReadStamps(_, _)
ReadStamps(v, stamps) ==
    IF stamps = <<>> THEN <<>>
    ELSE <<[start |-> timestampToSeconds(normalizeTimestamp(v, Head(stamps)[1])),
            end   |-> timestampToSeconds(normalizeTimestamp(v, Head(stamps)[2]))]>>
             \o ReadStamps(v, Tail(stamps))

EmInit ==
    /\ pc = "em_start"
    /\ variant \in WriterVariants
    /\ \/ /\ segments \in SegLists \cup {<<s>> : s \in WordSegs}
          /\ metadata \in MetaPool
          /\ audioDuration \in DurationPool
       \/ /\ \E t \in StampTimes \cup EdgeTimes : segments = <<Solo(t)>>
          /\ metadata = NoMeta
          /\ audioDuration = 0
    /\ srt = <<>> /\ lrc = <<>> /\ ttml = <<>>
    /\ readback = NoReadBack
    /\ TsIdle
    /\ PpIdle
    /\ JsIdle
    /\ ExIdle
    /\ AppIdle

\* downloadTextFile(generateSRT(segments), 'srt')
WriteSRT ==
    /\ pc = "em_start"
    /\ srt' = generateSRT(segments)
    /\ pc' = "em_srt"
    /\ UNCHANGED <<variant, segments, metadata, audioDuration, lrc, ttml, readback,
                   tsVars, ppVars, jsVars, exVars, apVars>>

\* downloadTextFile(generateLRC(segments, metadata), 'lrc')
WriteLRC ==
    /\ pc = "em_start"
    /\ lrc' = generateLRC(variant, segments, metadata, audioDuration)
    /\ pc' = "em_lrc"
    /\ UNCHANGED <<variant, segments, metadata, audioDuration, srt, ttml, readback,
                   tsVars, ppVars, jsVars, exVars, apVars>>

\* downloadTextFile(generateTTML(segments, metadata), 'ttml'), as the first
\* download or after the SRT one
WriteTTML ==
    /\ pc \in {"em_start", "em_srt"}
    /\ variant = "tu"
    /\ ttml' = generateTTML(segments, metadata)
    /\ pc' = "em_ttml"
    /\ UNCHANGED <<variant, segments, metadata, audioDuration, srt, lrc, readback,
                   tsVars, ppVars, jsVars, exVars, apVars>>

\* the stamps of the SRT text through normalizeTimestamp and
\* timestampToSeconds
ReadBack ==
    /\ pc = "em_srt"
    /\ \E v \in NormVariants :
          readback' = [by |-> v, times |-> ReadStamps(v, StampLines(Split(srt, "\n")))]
    /\ pc' = "em_read"
    /\ UNCHANGED <<variant, segments, metadata, audioDuration, srt, lrc, ttml,
                   tsVars, ppVars, jsVars, exVars, apVars>>

EmNext == WriteSRT \/ WriteLRC \/ WriteTTML \/ ReadBack

SpecEmit == EmInit /\ [][EmNext]_vars

(***************************************************************************)
(* components/ResultsView.tsx: the video export.  Every call of            *)
(* exportVideo is one entry of exports: its phase ("resuming" while the    *)
(* call waits on audioContext.resume(), "recording" once its MediaRecorder *)
(* is started, "stopping" from stop() until the stop event has been        *)
(* delivered, "inactive" after), the chunks its ondataavailable has        *)
(* pushed, and whether its drawFrame is still scheduled.  Its field        *)
(* aborted is a history variable: abortExport was invoked while the        *)
(* export was unfinished.                                                  *)
(***************************************************************************)
MaxExports == 3

NewExport(phase, loop) ==
    [phase |-> phase, flushed |-> FALSE, chunks |-> 0, loop |-> loop, aborted |-> FALSE]

\* the first call of drawFrame, right after mediaRecorder.start() and
\* audio.play(): it returns at once when the flag is set and otherwise
\* draws and requests the next frame
Started(e, aborted) == [e EXCEPT !.phase = "recording", !.loop = ~aborted]

\* mediaRecorder.stop() of a recorder that is recording: its state is
\* inactive from now on, the dataavailable and stop events follow later
Stopped(e) == IF e.phase = "recording" THEN [e EXCEPT !.phase = "stopping"] ELSE e

Unfinished(e) == e.phase # "inactive"

ExInit ==
    /\ pc = "ex_run"
    /\ variant = "rv"
    /\ isExporting = FALSE
    /\ isAbortedRef = FALSE
    /\ mediaRecorderRef = 0
    /\ animationFrameRef = 0
    /\ exports = <<>>
    /\ downloaded = {}
    /\ TsIdle
    /\ PpIdle
    /\ JsIdle
    /\ EmIdle
    /\ AppIdle

\* onClick={exportVideo}, the button being disabled while isExporting; the
\* call either runs through or stops at await audioContext.resume()
ExportVideo ==
    /\ pc = "ex_run"
    /\ ~isExporting
    /\ Len(exports) < MaxExports
    /\ isExporting' = TRUE
    /\ isAbortedRef' = FALSE
    /\ \/ /\ exports' = Append(exports, NewExport("resuming", FALSE))
          /\ UNCHANGED <<mediaRecorderRef, animationFrameRef>>
       \/ /\ exports' = Append(exports, Started(NewExport("resuming", FALSE), FALSE))
          /\ mediaRecorderRef' = Len(exports) + 1
          /\ animationFrameRef' = Len(exports) + 1
    /\ UNCHANGED <<pc, variant, downloaded, tsVars, ppVars, jsVars, emVars, apVars>>

\* exportVideo after await audioContext.resume()
ResumeExport ==
    \E k \in 1..Len(exports) :
        /\ pc = "ex_run"
        /\ exports[k].phase = "resuming"
        /\ exports' = [exports EXCEPT ![k] = Started(@, isAbortedRef)]
        /\ mediaRecorderRef' = k
        /\ animationFrameRef' = IF isAbortedRef THEN animationFrameRef ELSE k
        /\ UNCHANGED <<pc, variant, isExporting, isAbortedRef, downloaded,
                       tsVars, ppVars, jsVars, emVars, apVars>>

\* onClick={abortExport}, the button being shown while isExporting
AbortExport ==
    /\ pc = "ex_run"
    /\ isExporting
    /\ isAbortedRef' = TRUE
    /\ exports' =
          [k \in 1..Len(exports) |->
              LET stopped   == IF k = mediaRecorderRef THEN Stopped(exports[k])
                               ELSE exports[k]
                  cancelled == IF k = animationFrameRef
                               THEN [stopped EXCEPT !.loop = FALSE] ELSE stopped
              IN  [cancelled EXCEPT !.aborted = @ \/ Unfinished(exports[k])]]
    /\ isExporting' = FALSE
    /\ UNCHANGED <<pc, variant, mediaRecorderRef, animationFrameRef, downloaded,
                   tsVars, ppVars, jsVars, emVars, apVars>>

\* a scheduled drawFrame that ends its loop: the flag is set, or the audio
\* is paused or has ended and the recorder is stopped
DrawFrame ==
    \E k \in 1..Len(exports) :
        /\ pc = "ex_run"
        /\ exports[k].loop
        /\ exports' = [exports EXCEPT ![k] =
                          IF isAbortedRef THEN [@ EXCEPT !.loop = FALSE]
                          ELSE [Stopped(@) EXCEPT !.loop = FALSE]]
        /\ UNCHANGED <<pc, variant, isExporting, isAbortedRef, mediaRecorderRef,
                       animationFrameRef, downloaded, tsVars, ppVars, jsVars, emVars, apVars>>

\* mediaRecorder.ondataavailable, fired once after stop() with what was
\* recorded: if (e.data.size > 0) chunks.push(e.data)
DataAvailable ==
    \E k \in 1..Len(exports) :
        /\ pc = "ex_run"
        /\ exports[k].phase = "stopping"
        /\ ~exports[k].flushed
        /\ \E size \in {0, 1} :
              exports' = [exports EXCEPT ![k].flushed = TRUE,
                                         ![k].chunks = IF size > 0 THEN @ + 1 ELSE @]
        /\ UNCHANGED <<pc, variant, isExporting, isAbortedRef, mediaRecorderRef,
                       animationFrameRef, downloaded, tsVars, ppVars, jsVars, emVars, apVars>>

\* mediaRecorder.onstop
OnStop ==
    \E k \in 1..Len(exports) :
        /\ pc = "ex_run"
        /\ exports[k].phase = "stopping"
        /\ exports[k].flushed
        /\ downloaded' = IF ~isAbortedRef /\ exports[k].chunks > 0
                         THEN downloaded \cup {k} ELSE downloaded
        /\ isExporting' = FALSE
        /\ exports' = [exports EXCEPT ![k].phase = "inactive"]
        /\ UNCHANGED <<pc, variant, isAbortedRef, mediaRecorderRef, animationFrameRef,
                       tsVars, ppVars, jsVars, emVars, apVars>>

ExNext ==
    \/ ExportVideo
    \/ AbortExport
    \/ ResumeExport
    \/ DrawFrame
    \/ DataAvailable
    \/ OnStop

SpecExport == ExInit /\ [][ExNext]_vars

(***************************************************************************)
(* App.tsx: recording, file selection and the transcription requests.      *)
(* Every call of handleTranscribe that goes past its guard is one entry of *)
(* requests: its currentRequestId, where the call stands ("reading" at     *)
(* await fileToBase64, "calling" at await transcribeAudio, "done") and how *)
(* it ended ("dropped" by one of the cancellation checks, "completed",     *)
(* "failed").  Every call of startRecording is one entry of recordings:    *)
(* "asking" at await getUserMedia, "recording", "stopping" from stop()     *)
(* until the stop event has been delivered, "inactive" after, "refused"    *)
(* when getUserMedia rejected; its field cancelled is a history variable:  *)
(* the recorder was stopped by cancelRecording.  A handler is enabled      *)
(* where the element it is bound to is rendered and not disabled; a        *)
(* continuation after an await runs as one step.  transcription holds the  *)
(* id of the request whose segments it is, 0 for the empty list.           *)
(***************************************************************************)
\* the calls of handleTranscribe and startRecording of one run
MaxCalls == 3

File == [kind |-> "file", id |-> 0]

\* new Blob(chunksRef.current, { type: 'audio/webm' }) of recording k
Recording(k) == [kind |-> "recording", id |-> k]

TooLarge == "File is too large. Please choose a file under 25MB."

Unsupported == "Unsupported file format. Please upload an audio or video file."

NoMicrophone == "Could not access microphone. Please ensure permissions are granted."

FailedToTranscribe == "Failed to transcribe audio. Please try again or check your API Key."

\* the view that is not the results view
InputView == appState # "COMPLETED"

AppInit ==
    /\ pc = "ap_run"
    /\ variant = "app"
    /\ AppIdle
    /\ TsIdle
    /\ PpIdle
    /\ JsIdle
    /\ EmIdle
    /\ ExIdle

\* processFile(file), from the file input or a drop on its label
ProcessFile ==
    /\ pc = "ap_run"
    /\ InputView /\ audioSourceType = "upload" /\ audioFile = NoFile
    /\ \/ /\ \E msg \in {TooLarge, Unsupported} : errorMsg' = msg
          /\ UNCHANGED <<audioFile, appState>>
       \/ /\ audioFile' = File
          /\ appState' = "READY"
          /\ errorMsg' = "null"
    /\ UNCHANGED <<pc, variant, audioSourceType, transcription, isRecording, recorderRef,
                   transcriptionRequestIdRef, requests, recordings,
                   tsVars, ppVars, jsVars, emVars, exVars>>

\* onClick={clearFile}
ClearFile ==
    /\ pc = "ap_run"
    /\ InputView /\ audioSourceType = "upload" /\ audioFile # NoFile
    /\ audioFile' = NoFile
    /\ appState' = "IDLE"
    /\ UNCHANGED <<pc, variant, audioSourceType, transcription, errorMsg, isRecording,
                   recorderRef, transcriptionRequestIdRef, requests, recordings,
                   tsVars, ppVars, jsVars, emVars, exVars>>

\* the two buttons of the input source selector, which are not rendered
\* while PROCESSING: !isRecording && setAudioSourceType('upload'), disabled
\* while RECORDING, and !audioFile && setAudioSourceType('microphone'),
\* disabled while READY with the upload source
SetAudioSourceType ==
    /\ pc = "ap_run"
    /\ InputView /\ appState # "PROCESSING"
    /\ \/ /\ appState # "RECORDING" /\ ~isRecording
          /\ audioSourceType = "microphone"
          /\ audioSourceType' = "upload"
       \/ /\ ~(appState = "READY" /\ audioSourceType = "upload") /\ audioFile = NoFile
          /\ audioSourceType = "upload"
          /\ audioSourceType' = "microphone"
    /\ UNCHANGED <<pc, variant, appState, audioFile, transcription, errorMsg, isRecording,
                   recorderRef, transcriptionRequestIdRef, requests, recordings,
                   tsVars, ppVars, jsVars, emVars, exVars>>

\* onClick={startRecording}, up to await getUserMedia
StartRecording ==
    /\ pc = "ap_run"
    /\ InputView /\ audioSourceType = "microphone" /\ audioFile = NoFile /\ ~isRecording
    /\ Len(requests) + Len(recordings) < MaxCalls
    /\ recordings' = Append(recordings, [phase |-> "asking", cancelled |-> FALSE])
    /\ UNCHANGED <<pc, variant, appState, audioSourceType, audioFile, transcription,
                   errorMsg, isRecording, recorderRef, transcriptionRequestIdRef, requests,
                   tsVars, ppVars, jsVars, emVars, exVars>>

\* startRecording after getUserMedia resolved
MicrophoneGranted ==
    \E k \in 1..Len(recordings) :
        /\ pc = "ap_run"
        /\ recordings[k].phase = "asking"
        /\ recordings' = [recordings EXCEPT ![k].phase = "recording"]
        /\ recorderRef' = k
        /\ isRecording' = TRUE
        /\ appState' = "RECORDING"
        /\ errorMsg' = "null"
        /\ UNCHANGED <<pc, variant, audioSourceType, audioFile, transcription,
                       transcriptionRequestIdRef, requests,
                       tsVars, ppVars, jsVars, emVars, exVars>>

\* the catch of startRecording
MicrophoneRefused ==
    \E k \in 1..Len(recordings) :
        /\ pc = "ap_run"
        /\ recordings[k].phase = "asking"
        /\ recordings' = [recordings EXCEPT ![k].phase = "refused"]
        /\ errorMsg' = NoMicrophone
        /\ UNCHANGED <<pc, variant, appState, audioSourceType, audioFile, transcription,
                       isRecording, recorderRef, transcriptionRequestIdRef, requests,
                       tsVars, ppVars, jsVars, emVars, exVars>>

\* the recordings after stopRecording(): if (mediaRecorderRef.current &&
\* isRecording) mediaRecorderRef.current.stop()
StopCurrent(byCancel) ==
    [k \in 1..Len(recordings) |->
        IF recorderRef = k /\ isRecording /\ recordings[k].phase = "recording"
        THEN [phase |-> "stopping", cancelled |-> byCancel]
        ELSE recordings[k]]

\* onClick={stopRecording}
StopRecording ==
    /\ pc = "ap_run"
    /\ InputView /\ audioSourceType = "microphone" /\ audioFile = NoFile /\ isRecording
    /\ recordings' = StopCurrent(FALSE)
    /\ isRecording' = FALSE
    /\ UNCHANGED <<pc, variant, appState, audioSourceType, audioFile, transcription,
                   errorMsg, recorderRef, transcriptionRequestIdRef, requests,
                   tsVars, ppVars, jsVars, emVars, exVars>>

\* onClick={cancelRecording}, of the Cancel button while recording and of
\* the X button of a finished recording
CancelRecording ==
    /\ pc = "ap_run"
    /\ InputView /\ audioSourceType = "microphone"
    /\ audioFile = NoFile => isRecording
    /\ recordings' = StopCurrent(TRUE)
    /\ isRecording' = FALSE
    /\ appState' = "IDLE"
    /\ audioFile' = NoFile
    /\ UNCHANGED <<pc, variant, audioSourceType, transcription, errorMsg, recorderRef,
                   transcriptionRequestIdRef, requests,
                   tsVars, ppVars, jsVars, emVars, exVars>>

\* mediaRecorder.onstop
RecorderOnStop ==
    \E k \in 1..Len(recordings) :
        /\ pc = "ap_run"
        /\ recordings[k].phase = "stopping"
        /\ recordings' = [recordings EXCEPT ![k].phase = "inactive"]
        /\ audioFile' = Recording(k)
        /\ appState' = "READY"
        /\ UNCHANGED <<pc, variant, audioSourceType, transcription, errorMsg, isRecording,
                       recorderRef, transcriptionRequestIdRef, requests,
                       tsVars, ppVars, jsVars, emVars, exVars>>

\* transcriptionRequestIdRef.current !== currentRequestId is false, with
\* the check left out
IsCurrentAlways(currentRequestId) == TRUE

\* transcriptionRequestIdRef.current !== currentRequestId is false
IsCurrent(currentRequestId) == transcriptionRequestIdRef = currentRequestId

\* the state the catch of handleTranscribe sets, left as it was
AfterFailureStays == appState

\* the state the catch of handleTranscribe sets
AfterFailure == "READY"

\* onClick={handleTranscribe}, up to await fileToBase64; ResultsView does
\* not use its onRetry
HandleTranscribe ==
    /\ pc = "ap_run"
    /\ InputView /\ audioFile # NoFile
    /\ Len(requests) + Len(recordings) < MaxCalls
    /\ transcriptionRequestIdRef' = transcriptionRequestIdRef + 1
    /\ requests' = Append(requests, [id |-> transcriptionRequestIdRef + 1,
                                     phase |-> "reading", outcome |-> "none"])
    /\ appState' = "PROCESSING"
    /\ errorMsg' = "null"
    /\ UNCHANGED <<pc, variant, audioSourceType, audioFile, transcription, isRecording,
                   recorderRef, recordings, tsVars, ppVars, jsVars, emVars, exVars>>

\* onClick={handleCancelTranscription}, of the overlay shown while
\* PROCESSING
HandleCancelTranscription ==
    /\ pc = "ap_run"
    /\ appState = "PROCESSING"
    /\ transcriptionRequestIdRef' = transcriptionRequestIdRef + 1
    /\ appState' = "READY"
    /\ errorMsg' = "null"
    /\ UNCHANGED <<pc, variant, audioSourceType, audioFile, transcription, isRecording,
                   recorderRef, requests, recordings,
                   tsVars, ppVars, jsVars, emVars, exVars>>

\* onReset={handleReset} of the results view
HandleReset ==
    /\ pc = "ap_run"
    /\ appState = "COMPLETED"
    /\ appState' = "IDLE"
    /\ audioFile' = NoFile
    /\ transcription' = 0
    /\ errorMsg' = "null"
    /\ UNCHANGED <<pc, variant, audioSourceType, isRecording, recorderRef,
                   transcriptionRequestIdRef, requests, recordings,
                   tsVars, ppVars, jsVars, emVars, exVars>>

\* the request k ends without a change of the App's state
Dropped(k) ==
    /\ requests' = [requests EXCEPT ![k].phase = "done", ![k].outcome = "dropped"]
    /\ UNCHANGED <<appState, transcription, errorMsg>>

\* the catch block of handleTranscribe for request k
Failed(k) ==
    IF IsCurrent(requests[k].id)
    THEN /\ requests' = [requests EXCEPT ![k].phase = "done", ![k].outcome = "failed"]
         /\ errorMsg' = FailedToTranscribe
         /\ appState' = AfterFailure
         /\ UNCHANGED transcription
    ELSE Dropped(k)

\* handleTranscribe after await fileToBase64(audioFile)
FileRead ==
    \E k \in 1..Len(requests) :
        /\ pc = "ap_run"
        /\ requests[k].phase = "reading"
        /\ \/ IF IsCurrent(requests[k].id)
              THEN /\ requests' = [requests EXCEPT ![k].phase = "calling"]
                   /\ UNCHANGED <<appState, transcription, errorMsg>>
              ELSE Dropped(k)
           \/ Failed(k)
        /\ UNCHANGED <<pc, variant, audioSourceType, audioFile, isRecording, recorderRef,
                       transcriptionRequestIdRef, recordings,
                       tsVars, ppVars, jsVars, emVars, exVars>>

\* handleTranscribe after await transcribeAudio(...)
TranscribeSettles ==
    \E k \in 1..Len(requests) :
        /\ pc = "ap_run"
        /\ requests[k].phase = "calling"
        /\ \/ IF IsCurrent(requests[k].id)
              THEN /\ requests' = [requests EXCEPT ![k].phase = "done",
                                                   ![k].outcome = "completed"]
                   /\ transcription' = requests[k].id
                   /\ appState' = "COMPLETED"
                   /\ UNCHANGED errorMsg
              ELSE Dropped(k)
           \/ Failed(k)
        /\ UNCHANGED <<pc, variant, audioSourceType, audioFile, isRecording, recorderRef,
                       transcriptionRequestIdRef, recordings,
                       tsVars, ppVars, jsVars, emVars, exVars>>

AppNext ==
    \/ ProcessFile
    \/ ClearFile
    \/ SetAudioSourceType
    \/ StartRecording
    \/ MicrophoneGranted
    \/ MicrophoneRefused
    \/ StopRecording
    \/ CancelRecording
    \/ RecorderOnStop
    \/ HandleTranscribe
    \/ HandleCancelTranscription
    \/ HandleReset
    \/ FileRead
    \/ TranscribeSettles

SpecApp == AppInit /\ [][AppNext]_vars

\* the promises of fileToBase64 and of transcribeAudio settle, and the
\* continuation of handleTranscribe runs when they do
SpecAppFair == SpecApp /\ WF_vars(FileRead) /\ WF_vars(TranscribeSettles)

(***************************************************************************)
(* Properties of the timestamp pipeline                                    *)
(***************************************************************************)
\* the shape HH:MM:SS.mmm : 2, 2, 2 and 3 digits
IsCanonical(s) ==
    /\ Len(s) = 12
    /\ s[3] = ":" /\ s[6] = ":" /\ s[9] = "."
    /\ \A i \in {1, 2, 4, 5, 7, 8, 10, 11, 12} : s[i] \in Digits

\* C8: for every input string, normalizeTimestamp returns a string of the
\* exact shape HH:MM:SS.mmm (fixed width 2-2-2-3).
C8_AlwaysCanonical == pc # "ts_start" => IsCanonical(norm)

\* C9: normalizeTimestamp is idempotent: a canonical string is returned
\* unchanged, and normalizing a normalized string changes nothing.
C9_Idempotent ==
    pc = "ts_done" => /\ (IsCanonical(ts) => norm = ts)
                      /\ norm2 = norm

\* hours*3600 + minutes*60 + seconds + milliseconds/1000, in milliseconds
FormMillis(f) ==
    DigitsToNat(f.h) * 3600000 + DigitsToNat(f.m) * 60000
      + DigitsToNat(f.s) * 1000 + DigitsToNat(PadEnd(f.frac, 3))

IsBareDecimal(s) ==
    /\ s # <<>>
    /\ \A i \in 1..Len(s) : s[i] \in Digits \cup {"."}
    /\ Cardinality({i \in 1..Len(s) : s[i] = "."}) <= 1
    /\ \E i \in 1..Len(s) : s[i] \in Digits
    /\ \A i \in 1..Len(s) : s[i] = "." => Len(s) - i <= 3

\* the number a bare decimal denotes, in milliseconds
BareMillis(s) ==
    LET dot == IF "." \in Range(s) THEN CHOOSE i \in 1..Len(s) : s[i] = "." ELSE Len(s) + 1
    IN  DigitsToNat(SubSeq(s, 1, dot - 1)) * 1000
          + DigitsToNat(PadEnd(SubSeq(s, dot + 1, Len(s)), 3))

TruncatedFraction(frac) == PadEnd(Take(frac, 3), 3)

\* the value of a structured input whose fraction is cut after three digits
TruncatedMillis(f) ==
    DigitsToNat(f.h) * 3600000 + DigitsToNat(f.m) * 60000
      + DigitsToNat(f.s) * 1000 + DigitsToNat(TruncatedFraction(f.frac))

\* C12: in every accepted form, the bare decimal included, the fraction is
\* cut or zero-filled to exactly three digits: digits after the third are
\* dropped, never rounded, so the milliseconds stay within 0..999 and never
\* carry into the seconds.
C12_FractionTruncated ==
    (/\ pc \in {"ts_parsed", "ts_done"}
     /\ form.kind \in {"hms", "ms", "s"}
     /\ form.sep = ".")
    => /\ Split(norm, ".")[2] = TruncatedFraction(form.frac)
       /\ secs = TruncatedMillis(form)

\* what is left of s when every character other than the digits, ':' and
\* '.' is stripped
Stripped(s) == SelectSeq(s, LAMBDA c : c \in Digits \cup {":", "."})

\* nothing is left, no digit is left, or more than three fields are left
Unparseable(s) ==
    \/ Stripped(s) = <<>>
    \/ \A i \in 1..Len(s) : s[i] \notin Digits
    \/ Len(Split(Stripped(s), ":")) > 3

\* C13: a timestamp string that is unparseable, or that reduces to the
\* empty string once everything but digits, ':' and '.' is stripped, or
\* that has more than three colon-separated fields, resolves to 0 seconds.
C13_UnparseableIsZero ==
    (pc \in {"ts_parsed", "ts_done"} /\ Unparseable(ts))
    => secs = 0

\* "not a time" was normalized to the zero stamp and parsed to 0
C13_Witness ==
    /\ pc = "ts_parsed"
    /\ ts = <<"n", "o", "t", " ", "a", " ", "t", "i", "m", "e">>
    /\ norm = ZeroStamp
    /\ secs = 0

\* the same input written with a decimal point before the fraction
WithDot(f) == Render([f EXCEPT !.sep = "."])

\* C14: a comma before the fraction is equivalent to a decimal point: the
\* string with ',' resolves to the same number of seconds as the string
\* with '.', in every version of normalizeTimestamp.
C14_CommaIsDot ==
    (/\ pc \in {"ts_parsed", "ts_done"}
     /\ form.kind \in {"hms", "ms", "s"}
     /\ form.sep = ",")
    => secs = timestampToSeconds(normalizeTimestamp(variant, WithDot(form)))

(***************************************************************************)
(* Properties of the post-processing                                       *)
(***************************************************************************)
\* ascending by start
SortedByStart(xs) == \A i \in 1..(Len(xs) - 1) : xs[i].start <= xs[i + 1].start

\* C1: in every version of transcribeAudio the returned segment list is
\* sorted ascending by start, whatever the order of the raw records.
C1_SegmentsSorted == (pc = "pp_done" /\ ~out.threw) => SortedByStart(out.segs)

\* C2: the words list of every returned segment is sorted ascending by the
\* words' start, whatever the order of the input words and of the segments.
C2_WordsSorted ==
    (pc = "pp_done" /\ ~out.threw)
    => \A k \in 1..Len(out.segs) : SortedByStart(out.segs[k].words)

\* a record whose words came as (2 s, 1 s) was returned with them as (1 s, 2 s)
C2_Witness ==
    /\ pc = "pp_done"
    /\ variant = "gs_b"
    /\ ~out.threw
    /\ \E k \in 1..Len(raw) :
          /\ raw[k].hasWords
          /\ Len(raw[k].words) = 2
          /\ raw[k].words[1].startTime = Str(Stamp(0, 0, 2, 0))
          /\ raw[k].words[2].startTime = Str(Stamp(0, 0, 1, 0))
    /\ \E k \in 1..Len(out.segs) :
          /\ Len(out.segs[k].words) = 2
          /\ out.segs[k].words[1].start = 1000
          /\ out.segs[k].words[2].start = 2000

\* a finite number of seconds that is not negative
FiniteNonNegative(t) == t # NaN /\ t >= 0

\* C3: whatever a start or end field of a segment or word record holds (any
\* string, nothing, a number), the post-processing of geminiService.ts does
\* not throw and gives start and end as finite numbers >= 0.
C3_NeverThrowsNeverNaN ==
    (pc = "pp_done" /\ variant \in {"gs_a", "gs_b"})
    => /\ ~out.threw
       /\ \A k \in 1..Len(out.segs) :
            /\ FiniteNonNegative(out.segs[k].start)
            /\ FiniteNonNegative(out.segs[k].end)
            /\ \A j \in 1..Len(out.segs[k].words) :
                 /\ FiniteNonNegative(out.segs[k].words[j].start)
                 /\ FiniteNonNegative(out.segs[k].words[j].end)

\* the same record written with the other pair of keys
SwapKeys(r) ==
    [r EXCEPT !.startTime = r.start, !.endTime = r.end,
              !.start = r.startTime, !.end = r.endTime]

SwapAllKeys(rs) == [i \in 1..Len(rs) |-> SwapKeys(rs[i])]

\* every start and end the records hold is a string
TimesAreStrings(rs) ==
    \A i \in 1..Len(rs) :
        \A val \in {rs[i].startTime, rs[i].endTime, rs[i].start, rs[i].end} :
            val.kind \in {"str", "undef"}

\* C6: a record {start, end, text} and a record {startTime, endTime, text}
\* holding the same timestamp strings produce the same segment.
C6_EitherKeyConvention ==
    (pc = "pp_done" /\ TimesAreStrings(raw))
    => out = PostProcess(variant, SwapAllKeys(raw))

\* the ways to pair the places of n outputs with the places of n inputs
Pairings(n) == {f \in [1..n -> 1..n] : \A i, j \in 1..n : f[i] = f[j] => i = j}

\* the segment says the parsed start, the parsed end and the text of the record
SaysRecord(v, seg, r) ==
    /\ seg.start = FieldSeconds(v, r.startTime).t
    /\ seg.end = FieldSeconds(v, r.endTime).t
    /\ seg.text = r.text

\* C21: for records whose startTime and endTime are strings or missing, the
\* post-processing of geminiService.ts and part_001 returns, and what it
\* returns is the input records in some order, each with its parsed start,
\* its parsed end and its text: none dropped, merged, swapped or clamped,
\* inverted and overlapping records included.
C21_RecordsKept ==
    (pc = "pp_done" /\ variant \in {"gs_a", "gs_b", "p1"} /\ TimesAreStrings(raw))
    => /\ ~out.threw
       /\ Len(out.segs) = Len(raw)
       /\ \E f \in Pairings(Len(raw)) :
             \A i \in 1..Len(raw) : SaysRecord(variant, out.segs[f[i]], raw[i])

\* the inverted record (2 s to 1 s) came first and is returned second, after
\* the record (1 s to 3 s) that overlaps it, both with their own times
C21_Witness ==
    /\ pc = "pp_done"
    /\ variant = "gs_b"
    /\ raw = <<LongRecord(Str(Stamp(0, 0, 2, 0)), Str(Stamp(0, 0, 1, 0)), <<"b">>),
               LongRecord(Str(Stamp(0, 0, 1, 0)), Str(Stamp(0, 0, 3, 0)), <<" ", "c">>)>>
    /\ ~out.threw
    /\ out.segs = <<[start |-> 1000, end |-> 3000, text |-> <<" ", "c">>, words |-> <<>>],
                    [start |-> 2000, end |-> 1000, text |-> <<"b">>, words |-> <<>>]>>

(***************************************************************************)
(* Properties of the JSON repair                                           *)
(***************************************************************************)
Repaired == pc \in {"js_repaired", "js_done"}

\* C4: for a {"segments":[r1,...,rn]} document cut off at any position
\* after at least one complete record, also inside a later record whose
\* nested word objects are closed, tryRepairJson returns, and the segments
\* it returns are exactly the complete records before the cut, in order
C4_TruncationRecovered ==
    (Repaired /\ doc.shape = "segments" /\ Truncated(doc)
       /\ CompleteRecords(doc, 1) # <<>>)
    => /\ ~repaired.threw
       /\ Get(repaired.val, "segments") = JArr(CompleteRecords(doc, 1))

\* the text parses directly as JSON
ParsesDirectly == JSONparse(CleanText(variant, text)).ok

\* C5: whenever tryRepairJson returns for a text that parses directly, the
\* result has a segments array: an object with a segments array comes back
\* as it is, a top-level array and a single segment-like object come back
\* wrapped, and transcribeAudio accepts these three shapes
C5_DirectShapesAccepted ==
    (pc = "js_done" /\ ParsesDirectly)
    => /\ ~repaired.threw => IsArray(Get(repaired.val, "segments"))
       /\ doc.shape = "segments" =>
             ~repaired.threw /\ repaired.val = DocValue(doc) /\ verdict = "accepted"
       /\ doc.shape = "array" =>
             /\ ~repaired.threw /\ repaired.val = WrapSegments(DocValue(doc))
             /\ verdict = "accepted"
       /\ doc.shape = "single" =>
             /\ ~repaired.threw /\ repaired.val = WrapSegments(JArr(<<DocValue(doc)>>))
             /\ verdict = "accepted"

\* C7: the only error tryRepairJson throws is a MalformedResponse error
\* that carries the raw response text
C7_OnlyMalformedResponse ==
    (Repaired /\ repaired.threw)
    => /\ repaired.err.name = "MalformedResponse"
       /\ repaired.err.carries = text

\* C23: for a complete {"segments":[r1,...,rn]} followed by text that is no
\* JSON, tryRepairJson of geminiService.ts (second version) and of part_001
\* returns, and the segments it returns are r1,...,rn unchanged, also for
\* n = 0.
C23_TrailingTextIgnored ==
    (Repaired /\ doc.trail # <<>> /\ variant \in {"gs_b", "p1"})
    => /\ ~repaired.threw
       /\ Get(repaired.val, "segments") = JArr(doc.recs)

\* tryRepairJson of part_001 came to its regular expression: the optimistic
\* parse and the truncation repair gave nothing
Scraped ==
    LET clean == CleanText(variant, text)
    IN  /\ Repaired
        /\ variant = "p1"
        /\ ~OptimisticParse(JSONparse(clean)).hit
        /\ ~TruncationRepair(clean, LastIndexOf(clean, "}", Len(clean)),
                             SearchLimit(clean)).hit

\* the record is the startTime, endTime and text of the segment object
FromObject(rec, obj) ==
    /\ Get(obj, "startTime") # JUndef
    /\ Get(obj, "endTime") # JUndef
    /\ Get(obj, "text") # JUndef
    /\ rec = JObj(<<"startTime", "endTime", "text">>,
                  <<Get(obj, "startTime"), Get(obj, "endTime"), Get(obj, "text")>>)

\* the ways to pick m of n things in their order
Picks(m, n) == {f \in [1..m -> 1..n] : \A i, j \in 1..m : i < j => f[i] < f[j]}

\* C30: each record the regular expression of tryRepairJson scrapes has the
\* startTime, endTime and text of one segment object of the text, and the
\* records come in the order of their objects.
C30_ScrapedFromOneObject ==
    (Scraped /\ ~repaired.threw) =>
        LET got == Get(repaired.val, "segments").items
        IN  \E f \in Picks(Len(got), Len(doc.recs)) :
                \A k \in 1..Len(got) : FromObject(got[k], doc.recs[f[k]])

(***************************************************************************)
(* Properties of the subtitle writers                                      *)
(***************************************************************************)
AllDigits(s) == \A i \in 1..Len(s) : s[i] \in Digits

\* the fields of a stamp written hours:minutes:seconds<sep>millis, or <<>>
\* when the stamp has another shape
ClockFields(stamp, sep) ==
    LET parts == Split(stamp, ":")
    IN  IF Len(parts) # 3 THEN <<>>
        ELSE LET last == Split(parts[3], sep)
             IN  IF Len(last) # 2 THEN <<>>
                 ELSE <<parts[1], parts[2], last[1], last[2]>>

\* HH:MM:SS<sep>mmm with minutes and seconds below 60
IsClockStamp(stamp, sep) ==
    LET f == ClockFields(stamp, sep)
    IN  /\ f # <<>>
        /\ \A i \in 1..4 : AllDigits(f[i])
        /\ Len(f[1]) >= 2 /\ Len(f[2]) = 2 /\ Len(f[3]) = 2 /\ Len(f[4]) = 3
        /\ DigitsToNat(f[2]) < 60 /\ DigitsToNat(f[3]) < 60

\* the milliseconds a clock stamp stands for
ClockMillis(stamp, sep) ==
    LET f == ClockFields(stamp, sep)
    IN  DigitsToNat(f[1]) * 3600000 + DigitsToNat(f[2]) * 60000
            + DigitsToNat(f[3]) * 1000 + DigitsToNat(f[4])

\* stamp says the time t to the nearest millisecond (zero for a NaN)
SaysMillis(stamp, sep, t) ==
    /\ IsClockStamp(stamp, sep)
    /\ IF t < 0 THEN ClockMillis(stamp, sep) = 0
       ELSE /\ ClockMillis(stamp, sep) * 10 - t <= 5
            /\ t - ClockMillis(stamp, sep) * 10 <= 5

IsTimeLine(line, seg) ==
    /\ HasArrow(line)
    /\ SaysMillis(StampsOf(line)[1], ",", seg.start)
    /\ SaysMillis(StampsOf(line)[2], ",", seg.end)

SrtWritten == pc \in {"em_srt", "em_read"}

\* C15: the SRT text is, for each segment in input order, the line of its
\* number counted from 1, the line 'HH:MM:SS,mmm --> HH:MM:SS,mmm' of its
\* start and end, the line of its text and one empty line between one entry
\* and the next; nothing is written for no segments.
C15_SrtEntries ==
    SrtWritten =>
        LET lines == Split(srt, "\n")
            n     == Len(segments)
        IN  IF n = 0 THEN srt = <<>>
            ELSE /\ Len(lines) = 4 * n
                 /\ \A i \in 1..n :
                       /\ lines[4 * i - 3] = NatToStr(i)
                       /\ IsTimeLine(lines[4 * i - 2], segments[i])
                       /\ lines[4 * i - 1] = segments[i].text
                       /\ lines[4 * i] = <<>>

C15_Witness ==
    /\ pc = "em_srt"
    /\ segments = <<Seg(Ms(28106), Ms(34510), <<"X">>)>>
    /\ srt = <<"1", "\n",
               "0", "0", ":", "0", "0", ":", "2", "8", ",", "1", "0", "6",
               " ", "-", "-", ">", " ",
               "0", "0", ":", "0", "0", ":", "3", "4", ",", "5", "1", "0", "\n",
               "X", "\n">>

WholeMillis(t) == t >= 0 /\ t % 10 = 0

\* C16: when every start and end is a non-negative whole number of
\* milliseconds, each stamp of the SRT text, normalized and parsed, is the
\* start or end it was written from.
C16_SrtRoundTrip ==
    (/\ pc = "em_read"
     /\ \A i \in 1..Len(segments) :
           WholeMillis(segments[i].start) /\ WholeMillis(segments[i].end))
    => /\ Len(readback.times) = Len(segments)
       /\ \A i \in 1..Len(segments) :
             /\ readback.times[i].start * 10 = segments[i].start
             /\ readback.times[i].end * 10 = segments[i].end

\* the fields of a stamp written [minutes:seconds.centis], or <<>> when the
\* stamp has another shape
LrcFields(stamp) ==
    IF Len(stamp) < 2 \/ stamp[1] # "[" \/ stamp[Len(stamp)] # "]" THEN <<>>
    ELSE LET parts == Split(SubSeq(stamp, 2, Len(stamp) - 1), ":")
         IN  IF Len(parts) # 2 THEN <<>>
             ELSE LET last == Split(parts[2], ".")
                  IN  IF Len(last) # 2 THEN <<>>
                      ELSE <<parts[1], last[1], last[2]>>

\* [MM:SS.xx] with at least two digits of minutes, seconds below 60
IsLrcStamp(stamp) ==
    LET f == LrcFields(stamp)
    IN  /\ f # <<>>
        /\ \A i \in 1..3 : AllDigits(f[i])
        /\ Len(f[1]) >= 2 /\ Len(f[2]) = 2 /\ Len(f[3]) = 2
        /\ DigitsToNat(f[2]) < 60

\* the centiseconds an LRC stamp stands for
LrcCentis(stamp) ==
    LET f == LrcFields(stamp)
    IN  (DigitsToNat(f[1]) * 60 + DigitsToNat(f[2])) * 100 + DigitsToNat(f[3])

\* stamp says the time t to the nearest centisecond (zero for a NaN)
SaysCentis(stamp, t) ==
    /\ IsLrcStamp(stamp)
    /\ IF t < 0 THEN LrcCentis(stamp) = 0
       ELSE /\ LrcCentis(stamp) * 100 - t <= 50
            /\ t - LrcCentis(stamp) * 100 <= 50

\* the line is the LRC stamp of the segment's start followed by its text
IsLyricLine(line, seg) ==
    /\ Len(line) >= Len(seg.text)
    /\ SubSeq(line, Len(line) - Len(seg.text) + 1, Len(line)) = seg.text
    /\ SaysCentis(SubSeq(line, 1, Len(line) - Len(seg.text)), seg.start)

\* segments[i + 1].start - segments[i].end > 4.0
GapOver(segs, i) ==
    /\ segs[i + 1].start # NaN
    /\ segs[i].end # NaN
    /\ segs[i + 1].start - segs[i].end > 40000

HeaderCount(meta) ==
    (IF meta.title # <<>> THEN 1 ELSE 0) + (IF meta.artist # <<>> THEN 1 ELSE 0)
        + (IF meta.album # <<>> THEN 1 ELSE 0) + 1

\* where the line of segment i is when the rule of the clear lines is kept
RECURSIVE LinePos(_, _, _)
LinePos(segs, meta, i) ==
    IF i = 1 THEN HeaderCount(meta) + 1
    ELSE LinePos(segs, meta, i - 1) + (IF GapOver(segs, i - 1) THEN 2 ELSE 1)

\* C17: in the LRC text the line of segment i + 1 comes directly after the
\* line of segment i when the gap between them is 4.0 seconds or less, and
\* after exactly one line holding a stamp and nothing else when the gap is
\* more than 4.0 seconds.
C17_ClearLineIffGapOver4 ==
    pc = "em_lrc" =>
        LET lines == Split(lrc, "\n")
            n     == Len(segments)
        IN  /\ n > 0 => Len(lines) >= LinePos(segments, metadata, n)
            /\ n > 0 => Len(lines) <= LinePos(segments, metadata, n) + 1
            /\ \A i \in 1..n :
                  IsLyricLine(lines[LinePos(segments, metadata, i)], segments[i])
            /\ \A i \in 1..(n - 1) :
                  GapOver(segments, i) =>
                      IsLrcStamp(lines[LinePos(segments, metadata, i) + 1])

C17_Witness ==
    /\ pc = "em_lrc"
    /\ variant = "tu"
    /\ metadata = NoMeta
    /\ segments = <<Seg(0, Ms(1000), <<"a">>), Seg(50001, Ms(7000), <<>>)>>
    /\ Split(lrc, "\n")[2] = <<"[", "0", "0", ":", "0", "0", ".", "0", "0", "]", "a">>
    /\ Split(lrc, "\n")[3] = <<"[", "0", "0", ":", "0", "2", ".", "0", "0", "]">>
    /\ Split(lrc, "\n")[4] = <<"[", "0", "0", ":", "0", "5", ".", "0", "0", "]">>

\* the stamp at the head of the line of the first segment
FirstStamp ==
    LET line == Split(lrc, "\n")[HeaderCount(metadata) + 1]
    IN  SubSeq(line, 1, Len(line) - Len(segments[1].text))

\* C18: for a start t >= 0 the stamp formatToLRCTime writes is [MM:SS.xx],
\* MM of two digits or more, SS below 60, xx of two digits, and stands for
\* t rounded to the nearest centisecond; 28.106 is written [00:28.11].
C18_LrcStampRounds ==
    (pc = "em_lrc" /\ segments # <<>> /\ segments[1].start >= 0)
    => /\ IsLrcStamp(FirstStamp)
       /\ LrcCentis(FirstStamp) * 100 - segments[1].start <= 50
       /\ segments[1].start - LrcCentis(FirstStamp) * 100 <= 50
       /\ segments[1].start = Ms(28106)
             => FirstStamp = <<"[", "0", "0", ":", "2", "8", ".", "1", "1", "]">>

\* 5999.9959 s: the carry runs from the centiseconds to the hundredth minute
C18_Witness ==
    /\ pc = "em_lrc"
    /\ segments = <<Solo(59999959)>>
    /\ FirstStamp = <<"[", "1", "0", "0", ":", "0", "0", ".", "0", "0", "]">>

\* last.end + 4.0 <= audioDuration with audioDuration > 0
LastFits ==
    LET last == segments[Len(segments)]
    IN  audioDuration > 0 /\ last.end # NaN /\ last.end + 40000 <= audioDuration

\* the line is one of the header tags [ti:..], [ar:..], [al:..], [by:..]
IsHeaderLine(line) ==
    /\ Len(line) >= 5
    /\ SubSeq(line, 1, 4) \in {<<"[", "t", "i", ":">>, <<"[", "a", "r", ":">>,
                               <<"[", "a", "l", ":">>, <<"[", "b", "y", ":">>}
    /\ line[Len(line)] = "]"

\* C24: generateLRC of timeUtils.ts puts a clear line stamped last.end + 4.0
\* after the line of the last segment exactly when audioDuration > 0 and
\* last.end + 4.0 <= audioDuration; with audioDuration zero (the value an
\* omitted argument takes) nothing follows the last segment's line, and with
\* no segments the text is the header lines alone.
C24_TrailingClearLine ==
    (pc = "em_lrc" /\ variant = "tu") =>
        LET lines == Split(lrc, "\n")
            n     == Len(segments)
            at    == LinePos(segments, metadata, n)
        IN  /\ n = 0 =>
                  /\ Len(lines) = HeaderCount(metadata)
                  /\ \A i \in 1..Len(lines) : IsHeaderLine(lines[i])
            /\ n > 0 =>
                  /\ Len(lines) = at + (IF LastFits THEN 1 ELSE 0)
                  /\ LastFits =>
                        SaysCentis(lines[at + 1], segments[n].end + 40000)
            /\ (n > 0 /\ audioDuration = 0) => Len(lines) = at

\* the last segment ends at 6.0 s and the audio is 10.0 s long: the clear
\* line at exactly the audio's end is written
C24_Witness ==
    /\ pc = "em_lrc"
    /\ variant = "tu"
    /\ audioDuration = Ms(10000)
    /\ segments = <<Seg(Ms(5000), Ms(6000), <<"X">>)>>
    /\ LET lines == Split(lrc, "\n")
       IN  lines[Len(lines)] = <<"[", "0", "0", ":", "1", "0", ".", "0", "0", "]">>

\* the stretches of fixed markup an output of generateTTML is made of
Markup ==
    {DocOpen, TitleClose, DocClose, POpen, SpanOpen, EndAttr, TagEnd, PClose, SpanClose}

\* the first stretch of markup after position i
NextMarkup(written, i) == Least({j \in (i + 1)..Len(written) : written[j] \in Markup})

\* the character runs that stand between an opener and the closer, in the
\* order they are written
RECURSIVE Runs(_, _, _, _)
Runs(written, i, opener, closer) ==
    IF i >= Len(written) THEN <<>>
    ELSE IF written[i] = opener
    THEN (IF written[NextMarkup(written, i)] = closer
          THEN <<SubSeq(written, i + 1, NextMarkup(written, i) - 1)>>
          ELSE <<>>)
             \o Runs(written, NextMarkup(written, i), opener, closer)
    ELSE Runs(written, i + 1, opener, closer)

TitleRuns == Runs(ttml, 1, DocOpen, TitleClose)

ParagraphRuns == Runs(ttml, 1, TagEnd, PClose)

SpanRuns == Runs(ttml, 1, TagEnd, SpanClose)

\* the words of the segments that have words, in order, each with whether
\* it is the last of its segment
RECURSIVE MarkLast(_, _)
MarkLast(words, k) ==
    IF k > Len(words) THEN <<>>
    ELSE <<[text |-> words[k].text, last |-> k = Len(words)]>> \o MarkLast(words, k + 1)

RECURSIVE AllWords(_)
AllWords(segs) ==
    IF segs = <<>> THEN <<>>
    ELSE MarkLast(Head(segs).words, 1) \o AllWords(Tail(segs))

\* the texts of the segments that have no words, in order
RECURSIVE PlainTexts(_)
PlainTexts(segs) ==
    IF segs = <<>> THEN <<>>
    ELSE (IF Len(Head(segs).words) = 0 THEN <<Head(segs).text>> ELSE <<>>)
             \o PlainTexts(Tail(segs))

\* the entity of a character, or the character
Entity(c) ==
    CASE c = "&"  -> <<"&", "a", "m", "p", ";">>
      [] c = "<"  -> <<"&", "l", "t", ";">>
      [] c = ">"  -> <<"&", "g", "t", ";">>
      [] c = "\"" -> <<"&", "q", "u", "o", "t", ";">>
      [] c = "'"  -> <<"&", "a", "p", "o", "s", ";">>
      [] OTHER    -> <<c>>

\* str with each of & < > " ' replaced once by its entity
RECURSIVE Escaped(_)
Escaped(str) ==
    IF str = <<>> THEN <<>> ELSE Entity(Head(str)) \o Escaped(Tail(str))

RECURSIVE EscapedAll(_)
EscapedAll(strs) ==
    IF strs = <<>> THEN <<>> ELSE <<Escaped(Head(strs))>> \o EscapedAll(Tail(strs))

Between(u, low, high) == u >= low /\ u <= high

\* Hiragana, Katakana (halfwidth forms included), CJK ideographs, Hangul
Hiragana(u) == Between(u, 12352, 12447)

Katakana(u) == Between(u, 12448, 12543) \/ Between(u, 65382, 65439)

Ideograph(u) ==
    Between(u, 13312, 19903) \/ Between(u, 19968, 40959) \/ Between(u, 63744, 64255)

Hangul(u) ==
    Between(u, 4352, 4607) \/ Between(u, 12592, 12687) \/ Between(u, 44032, 55215)

HasCJKCharacter(str) ==
    \E i \in 1..Len(str) :
        \/ Hiragana(CodeUnit(str[i]))
        \/ Katakana(CodeUnit(str[i]))
        \/ Ideograph(CodeUnit(str[i]))
        \/ Hangul(CodeUnit(str[i]))

\* what the spans hold when the rule of the trailing space is kept
RECURSIVE SpacedWords(_)
SpacedWords(words) ==
    IF words = <<>> THEN <<>>
    ELSE <<Escaped(Head(words).text)
             \o (IF ~Head(words).last /\ ~HasCJKCharacter(Head(words).text)
                 THEN <<" ">> ELSE <<>>)>>
             \o SpacedWords(Tail(words))

\* every span holds its word escaped, a space after it or not
RECURSIVE HoldEscaped(_, _)
HoldEscaped(runs, words) ==
    IF runs = <<>> \/ words = <<>> THEN runs = <<>> /\ words = <<>>
    ELSE /\ \/ Head(runs) = Escaped(Head(words).text)
            \/ Head(runs) = Escaped(Head(words).text) \o <<" ">>
         /\ HoldEscaped(Tail(runs), Tail(words))

\* C19: in the TTML text a word's span holds the word followed by one space
\* exactly when the word is not the last of its segment and holds no
\* Hiragana, Katakana, CJK ideograph or Hangul character; otherwise the span
\* holds the word alone.
C19_TrailingSpace ==
    pc = "em_ttml" => SpanRuns = SpacedWords(AllWords(segments))

\* C20: in the TTML text the title, the text of every segment written
\* without words and the text of every word stand with each & < > " '
\* replaced once by its entity.
C20_TextsEscapedOnce ==
    pc = "em_ttml" =>
        /\ TitleRuns = <<Escaped(IF metadata.title # <<>> THEN metadata.title
                                 ELSE DefaultTitle)>>
        /\ ParagraphRuns = EscapedAll(PlainTexts(segments))
        /\ HoldEscaped(SpanRuns, AllWords(segments))

\* the segments are in order and do not overlap: start <= end for each and
\* end <= start of the next (no NaN satisfies a comparison)
SortedApart(segs) ==
    /\ \A i \in 1..Len(segs) :
          segs[i].start # NaN /\ segs[i].end # NaN /\ segs[i].start <= segs[i].end
    /\ \A i \in 1..(Len(segs) - 1) : segs[i].end <= segs[i + 1].start

\* the centiseconds of the stamp at the head of a timed line
LineCentis(line) ==
    LrcCentis(SubSeq(line, 1, Least({j \in 1..Len(line) : line[j] = "]"})))

\* C29: for segments in order that do not overlap, the stamps of the timed
\* lines of the LRC text never decrease from one line to the next, and the
\* clear line put between two segments is stamped after the end of the
\* segment before it and before the printed start of the segment after it.
C29_LrcStampsInOrder ==
    (pc = "em_lrc" /\ SortedApart(segments)) =>
        LET lines == Split(lrc, "\n")
            first == HeaderCount(metadata) + 1
        IN  /\ \A j \in first..(Len(lines) - 1) :
                  LineCentis(lines[j]) <= LineCentis(lines[j + 1])
            /\ \A i \in 1..(Len(segments) - 1) :
                  GapOver(segments, i) =>
                      LET at == LinePos(segments, metadata, i)
                      IN  /\ LineCentis(lines[at + 1]) * 100 > segments[i].end
                          /\ LineCentis(lines[at + 1]) < LineCentis(lines[at + 2])

\* the begin stamps and the end stamps of the paragraphs of the TTML text
BeginStamps == Runs(ttml, 1, POpen, EndAttr)

EndStamps == Runs(ttml, 1, EndAttr, TagEnd)

\* the stamp with every sep replaced by the other separator
RECURSIVE WithSeparator(_, _, _)
WithSeparator(stamp, sep, other) ==
    IF stamp = <<>> THEN <<>>
    ELSE <<IF Head(stamp) = sep THEN other ELSE Head(stamp)>>
             \o WithSeparator(Tail(stamp), sep, other)

\* stamp is HH:MM:SS<sep>mmm, minutes and seconds below 60, and stands for
\* t * 1000 rounded to the nearest integer, a half going up; for a NaN or
\* a negative t it is the all-zero stamp
RoundsToMillis(stamp, sep, t) ==
    /\ IsClockStamp(stamp, sep)
    /\ IF t < 0
       THEN stamp = <<"0", "0", ":", "0", "0", ":", "0", "0", sep, "0", "0", "0">>
       ELSE /\ ClockMillis(stamp, sep) * 10 - t <= 5
            /\ t - ClockMillis(stamp, sep) * 10 < 5

\* C26: the stamps formatToSRTTime and formatToTTMLTime write for a time t
\* are HH:MM:SS,mmm and HH:MM:SS.mmm with mmm in 0..999 and MM, SS in 0..59,
\* both stand for t * 1000 rounded to the nearest integer (a round-up
\* carrying into seconds, minutes and hours), they are the same but for the
\* separator, and for a NaN or a negative t both are all zeros.
C26_ClockStampsRound ==
    (pc = "em_ttml" /\ srt # <<>> /\ segments[1].words = NoWords) =>
        LET stamps == StampLines(Split(srt, "\n"))
        IN  /\ Len(stamps) = Len(segments)
            /\ Len(BeginStamps) = Len(segments)
            /\ Len(EndStamps) = Len(segments)
            /\ \A i \in 1..Len(segments) :
                  /\ RoundsToMillis(stamps[i][1], ",", segments[i].start)
                  /\ RoundsToMillis(stamps[i][2], ",", segments[i].end)
                  /\ RoundsToMillis(BeginStamps[i], ".", segments[i].start)
                  /\ RoundsToMillis(EndStamps[i], ".", segments[i].end)
                  /\ WithSeparator(stamps[i][1], ",", ".") = BeginStamps[i]
                  /\ WithSeparator(stamps[i][2], ",", ".") = EndStamps[i]

\* 3599.9996 s: the round-up carries through seconds and minutes into the
\* hour in both texts
C26_Witness ==
    /\ pc = "em_ttml"
    /\ segments = <<Solo(35999996)>>
    /\ srt # <<>>
    /\ StampLines(Split(srt, "\n"))[1][1]
          = <<"0", "1", ":", "0", "0", ":", "0", "0", ",", "0", "0", "0">>
    /\ BeginStamps[1] = <<"0", "1", ":", "0", "0", ":", "0", "0", ".", "0", "0", "0">>

(***************************************************************************)
(* Properties of the video export                                          *)
(***************************************************************************)
\* C22: an export for which abortExport was invoked never triggers a file
\* download, and while the latest export is an aborted one isExporting is
\* false.
C22_AbortedNeverDownloads ==
    pc = "ex_run" =>
        /\ \A k \in downloaded : ~exports[k].aborted
        /\ (exports # <<>> /\ exports[Len(exports)].aborted) => ~isExporting


(***************************************************************************)
(* Properties of the App                                                   *)
(***************************************************************************)
\* request k ends in this step
Ends(k) == requests[k].phase # "done" /\ requests'[k].phase = "done"

\* request k is the one started last, and no cancellation came after it
Latest(k) == k = Len(requests) /\ requests[k].id = transcriptionRequestIdRef

\* C25: the step in which a request ends whose id is no longer the current
\* one (handleCancelTranscription ran, or a later handleTranscribe started)
\* leaves transcription, appState and errorMsg as they are; the App goes to
\* COMPLETED, takes a new transcription or gets the transcription error
\* only in the step that ends the request started last and not cancelled.
C25_StaleResultsIgnored ==
    [][/\ \A k \in 1..Len(requests) :
             (Ends(k) /\ requests[k].id # transcriptionRequestIdRef)
                 => UNCHANGED <<transcription, appState, errorMsg>>
       /\ (\/ appState' = "COMPLETED" /\ appState # "COMPLETED"
           \/ transcription' # transcription /\ transcription' # 0
           \/ errorMsg' = FailedToTranscribe /\ errorMsg # FailedToTranscribe)
             => \E k \in 1..Len(requests) : Ends(k) /\ Latest(k)]_vars

\* the first request was cancelled and ended without a trace, the second
\* completed
C25_Witness ==
    /\ pc = "ap_run"
    /\ Len(requests) = 2
    /\ requests[1].outcome = "dropped"
    /\ requests[2].outcome = "completed"
    /\ transcriptionRequestIdRef = 3
    /\ appState = "COMPLETED"
    /\ transcription = 3

\* C27: once cancelRecording has stopped a recording, the blob of that
\* recording is never installed as audioFile, and when its stop event has
\* been delivered the App is not left READY by it.
C27_CancelledRecordingDiscarded ==
    pc = "ap_run" =>
        \A k \in 1..Len(recordings) :
            recordings[k].cancelled => audioFile # Recording(k)

\* a request that has not ended carries the current id
LiveCurrent ==
    \E k \in 1..Len(requests) :
        requests[k].phase # "done" /\ requests[k].id = transcriptionRequestIdRef

=============================================================================
